---- MODULE Spec2Model ----
(***************************************************************************)
(* Model of the student statistics merge of                                *)
(* src/src/etl/students_etl/load_mongo_stats.py: the timestamp codec, the  *)
(* per-student merge process_student_messages, the upsert that load issues *)
(* for it, runs of load that interleave on one student's record, and load  *)
(* over the groups of a batch on a collection of student records; and of   *)
(* MessageSaver of src/src/etl/db/mongodb/message_saver.py: save_message   *)
(* and save_messages_batch on a collection with a unique message_hash.     *)
(*                                                                         *)
(* Values.  A Python value that the code inspects dynamically is a record  *)
(* [k, v]: k is its kind and v an integer payload.                         *)
(*   "absent"  the key is missing from the dict                            *)
(*   "none"    None                                                        *)
(*   "int"     the integer v                                               *)
(*   "bool"    False (v = 0) or True (v = 1)                               *)
(*   "str"     the text 'HH:MM, DD.MM.YYYY' of minute number v             *)
(*   "dt"      the naive datetime v seconds after the epoch of the model   *)
(*   "bad"     a text that no timestamp format / int() accepts             *)
(* A lesson label is the sequence of its characters.                       *)
(***************************************************************************)
EXTENDS Integers, Sequences, FiniteSets, TLC

\* ---------------------------------------------------------------- bounds
MaxMinute == 1
MaxBatch == 2
MaxMerges == 2
MaxRecords == 2
MaxCalls == 4

\* ------------------------------------------------------ program constants
SecondsPerMinute == 60
NoDigitsKey == 9999

\* ----------------------------------------------------------------- values
Absent == [k |-> "absent", v |-> 0]
NoneV == [k |-> "none", v |-> 0]
IntV(n) == [k |-> "int", v |-> n]
BoolV(b) == [k |-> "bool", v |-> IF b THEN 1 ELSE 0]
StrV(m) == [k |-> "str", v |-> m]
DtV(s) == [k |-> "dt", v |-> s]
BadV == [k |-> "bad", v |-> 0]

\* Python truthiness of a value (datetimes and non-empty texts are true).
Truthy(x) ==
  CASE x.k = "absent" -> FALSE
    [] x.k = "none" -> FALSE
    [] x.k = "int" -> x.v # 0
    [] x.k = "bool" -> x.v = 1
    [] OTHER -> TRUE

\* --------------------------------------------------------- timestamp codec
\* A timestamp text of an event: fmt "custom" is 'HH:MM, DD.MM.YYYY' of
\* minute v, fmt "iso" is an ISO 8601 text (it holds a 'T') of second v
\* without a UTC offset, fmt "bad" matches no pattern.
CustomText(m) == [fmt |-> "custom", v |-> m]
IsoText(s) == [fmt |-> "iso", v |-> s]

\* parse_timestamp: [ok, dt]; ok = FALSE is the re-raised exception.
parse_timestamp(text) ==
  CASE text.fmt = "iso" -> [ok |-> TRUE, dt |-> text.v]
    [] text.fmt = "custom" -> [ok |-> TRUE, dt |-> text.v * SecondsPerMinute]
    [] OTHER -> [ok |-> FALSE, dt |-> 0]

\* format_timestamp that writes the minute after the datetime's.
format_timestamp_next_minute(dt) == StrV(dt \div SecondsPerMinute + 1)

\* format_timestamp: strftime('%H:%M, %d.%m.%Y') keeps the minute only.
format_timestamp(dt) == StrV(dt \div SecondsPerMinute)

\* parse_timestamp applied to a stored 'HH:MM, DD.MM.YYYY' text value.
ParseStored(x) ==
  IF x.k = "str" THEN [ok |-> TRUE, val |-> DtV(x.v * SecondsPerMinute)]
  ELSE [ok |-> FALSE, val |-> x]

\* ---------------------------------------------------------- lesson labels
Digits == <<"0", "1", "2", "3", "4", "5", "6", "7", "8", "9">>
IsDigit(c) == \E i \in 1..10 : Digits[i] = c
DigitVal(c) == (CHOOSE i \in 1..10 : Digits[i] = c) - 1

RECURSIVE DigitsToInt(_, _)
DigitsToInt(label, acc) ==
  IF label = <<>> THEN acc
  ELSE IF IsDigit(Head(label))
       THEN DigitsToInt(Tail(label), acc * 10 + DigitVal(Head(label)))
       ELSE DigitsToInt(Tail(label), acc)

\* extract_number: the integer of all the digits of the label, 9999 if none.
extract_number(label) ==
  IF \E i \in 1..Len(label) : IsDigit(label[i])
  THEN DigitsToInt(label, 0)
  ELSE NoDigitsKey

\* --------------------------------------------------------------- sequences
RECURSIVE InsertByKey(_, _)
\* Insert e after every element whose key is not greater (a stable insertion).
InsertByKey(sorted, e) ==
  IF sorted = <<>> THEN <<e>>
  ELSE IF extract_number(e.lesson) < extract_number(Head(sorted).lesson)
       THEN <<e>> \o sorted
       ELSE <<Head(sorted)>> \o InsertByKey(Tail(sorted), e)

RECURSIVE SortLessons(_, _)
\* sorted(lessons_dict.values(), key=extract_number): Python's stable sort.
SortLessons(done, rest) ==
  IF rest = <<>> THEN done
  ELSE SortLessons(InsertByKey(done, Head(rest)), Tail(rest))

\* ------------------------------------------------------------ lessons_dict
\* The dict lessons_dict, in insertion order: a sequence of entries with
\* pairwise different labels.
DictHas(d, label) == \E i \in 1..Len(d) : d[i].lesson = label
DictIndex(d, label) == CHOOSE i \in 1..Len(d) : d[i].lesson = label
DictGet(d, label) == d[DictIndex(d, label)]
\* d[label] = e: a key already in the dict keeps its position.
DictPut(d, e) ==
  IF DictHas(d, e.lesson) THEN [d EXCEPT ![DictIndex(d, e.lesson)] = e]
  ELSE Append(d, e)

\* int(x) of the load, 0 on ValueError / TypeError.
CoerceInt(x) ==
  CASE x.k = "int" -> x
    [] x.k = "bool" -> IntV(x.v)
    [] OTHER -> IntV(0)

\* LoadLesson that rebuilds an entry of the older schema (no message_count)
\* from its label and teacher alone.
LoadLessonRebuildsOld(lesson) ==
  IF lesson.message_count.k = "absent"
  THEN [lesson |-> lesson.lesson, teacher |-> lesson.teacher,
        first_practice |-> NoneV, last_practice |-> NoneV,
        practice_count |-> IntV(0), message_count |-> IntV(0),
        paid |-> BoolV(FALSE)]
  ELSE [lesson |-> lesson.lesson,
        teacher |-> lesson.teacher,
        first_practice |->
          IF ParseStored(lesson.first_practice).ok
          THEN ParseStored(lesson.first_practice).val ELSE lesson.first_practice,
        last_practice |->
          IF ParseStored(lesson.last_practice).ok
          THEN ParseStored(lesson.last_practice).val ELSE lesson.last_practice,
        practice_count |->
          IF lesson.practice_count.k = "absent" THEN Absent
          ELSE CoerceInt(lesson.practice_count),
        message_count |-> CoerceInt(lesson.message_count),
        paid |->
          IF lesson.paid.k = "absent" THEN BoolV(FALSE)
          ELSE BoolV(Truthy(lesson.paid))]

\* LoadLesson that sets paid to False whether or not the entry has it.
LoadLessonPaidReset(lesson) ==
  [lesson |-> lesson.lesson,
   teacher |-> lesson.teacher,
   first_practice |->
     IF ParseStored(lesson.first_practice).ok
     THEN ParseStored(lesson.first_practice).val ELSE lesson.first_practice,
   last_practice |->
     IF ParseStored(lesson.last_practice).ok
     THEN ParseStored(lesson.last_practice).val ELSE lesson.last_practice,
   practice_count |->
     IF lesson.practice_count.k = "absent" THEN Absent
     ELSE CoerceInt(lesson.practice_count),
   message_count |->
     IF lesson.message_count.k = "absent" THEN IntV(0)
     ELSE CoerceInt(lesson.message_count),
   paid |-> BoolV(FALSE)]

\* One stored lesson entry as the load puts it in lessons_dict.
LoadLesson(lesson) ==
  [lesson |-> lesson.lesson,
   teacher |-> lesson.teacher,
   first_practice |->
     IF ParseStored(lesson.first_practice).ok
     THEN ParseStored(lesson.first_practice).val ELSE lesson.first_practice,
   last_practice |->
     IF ParseStored(lesson.last_practice).ok
     THEN ParseStored(lesson.last_practice).val ELSE lesson.last_practice,
   practice_count |->
     IF lesson.practice_count.k = "absent" THEN Absent
     ELSE CoerceInt(lesson.practice_count),
   message_count |->
     IF lesson.message_count.k = "absent" THEN IntV(0)
     ELSE CoerceInt(lesson.message_count),
   paid |->
     IF lesson.paid.k = "absent" THEN BoolV(FALSE) ELSE BoolV(Truthy(lesson.paid))]

\* isinstance(lesson, dict): a stored entry that is not a dict is a value
\* [k, v] in the model.
IsDict(lesson) == "k" \notin DOMAIN lesson

\* 'lesson' in lesson_copy
HasLessonKey(lesson) == "lesson" \in DOMAIN lesson

RECURSIVE LoadLessonsStopAtCorrupt(_, _)
\* LoadLessons with break in place of continue.
LoadLessonsStopAtCorrupt(d, lessons) ==
  IF lessons = <<>> THEN d
  ELSE IF ~IsDict(Head(lessons)) THEN d
  ELSE IF ~HasLessonKey(Head(lessons)) THEN d
  ELSE LoadLessonsStopAtCorrupt(DictPut(d, LoadLesson(Head(lessons))), Tail(lessons))

RECURSIVE LoadLessonsFirstWins(_, _)
\* LoadLessons that keeps the first entry of a label and skips the later ones.
LoadLessonsFirstWins(d, lessons) ==
  IF lessons = <<>> THEN d
  ELSE IF ~IsDict(Head(lessons)) THEN LoadLessonsFirstWins(d, Tail(lessons))
  ELSE IF ~HasLessonKey(Head(lessons)) THEN LoadLessonsFirstWins(d, Tail(lessons))
  ELSE IF DictHas(d, Head(lessons).lesson) THEN LoadLessonsFirstWins(d, Tail(lessons))
  ELSE LoadLessonsFirstWins(DictPut(d, LoadLesson(Head(lessons))), Tail(lessons))

RECURSIVE LoadLessons(_, _)
\* The loop over existing_doc['lessons'] that fills lessons_dict: an entry
\* that is not a dict, or has no 'lesson' key, is skipped.
LoadLessons(d, lessons) ==
  IF lessons = <<>> THEN d
  ELSE IF ~IsDict(Head(lessons)) THEN LoadLessons(d, Tail(lessons))
  ELSE IF ~HasLessonKey(Head(lessons)) THEN LoadLessons(d, Tail(lessons))
  ELSE LoadLessons(DictPut(d, LoadLesson(Head(lessons))), Tail(lessons))

\* A mark of the existing document as the merge reads it: [ok, val], val
\* None or a datetime; ok = FALSE when parse_timestamp raises on it.
ExistingMark(doc, x) ==
  IF ~doc.exists \/ ~Truthy(x) THEN [ok |-> TRUE, val |-> NoneV]
  ELSE IF x.k = "str" THEN [ok |-> TRUE, val |-> ParseStored(x).val]
  ELSE IF x.k = "bad" THEN [ok |-> FALSE, val |-> NoneV]
  ELSE [ok |-> TRUE, val |-> x]

\* ------------------------------------------------------- the message loop
\* The entry a message event creates for a lesson not in the dict.
NewMessageLesson(msg) ==
  [lesson |-> msg.lesson, teacher |-> msg.teacher,
   practice_count |-> IntV(0), message_count |-> IntV(1),
   first_practice |-> NoneV, last_practice |-> NoneV, paid |-> BoolV(FALSE)]

\* NewPracticeLesson that leaves first_practice unset.
NewPracticeLessonNoFirst(msg, ts) ==
  [lesson |-> msg.lesson, teacher |-> msg.teacher,
   practice_count |-> IntV(1), message_count |-> IntV(0),
   first_practice |-> NoneV, last_practice |-> DtV(ts), paid |-> BoolV(FALSE)]

\* The entry a practice event creates for a lesson not in the dict.
NewPracticeLesson(msg, ts) ==
  [lesson |-> msg.lesson, teacher |-> msg.teacher,
   practice_count |-> IntV(1), message_count |-> IntV(0),
   first_practice |-> DtV(ts), last_practice |-> DtV(ts), paid |-> BoolV(FALSE)]

\* ZeroLesson that counts the first message of the group into the entry.
ZeroLessonCounted(label, teacher) ==
  [lesson |-> label, teacher |-> teacher,
   practice_count |-> IntV(0), message_count |-> IntV(1),
   first_practice |-> NoneV, last_practice |-> NoneV, paid |-> BoolV(FALSE)]

\* The zero entry of the auto-added current lesson.
ZeroLesson(label, teacher) ==
  [lesson |-> label, teacher |-> teacher,
   practice_count |-> IntV(0), message_count |-> IntV(0),
   first_practice |-> NoneV, last_practice |-> NoneV, paid |-> BoolV(FALSE)]

\* CountPlusOne that counts from 0 whatever the count was.
CountRestarts(x) == IntV(1)

\* x.get(key, 0) + 1 on a count.
CountPlusOne(x) == IF x.k = "absent" THEN IntV(1) ELSE IntV(x.v + 1)

\* RaiseMark that leaves the mark as it is.
RaiseMarkKeeps(mark, ts) == mark

\* if not mark or ts > mark: mark = ts
RaiseMark(mark, ts) == IF ~Truthy(mark) \/ ts > mark.v THEN DtV(ts) ELSE mark

\* CompareLastPractice with >= in place of >.
CompareLastPracticeGe(ts, last_practice) ==
  CASE last_practice.k = "absent" -> "gt"
    [] last_practice.k = "dt" -> IF ts >= last_practice.v THEN "gt" ELSE "le"
    [] OTHER -> "raise"

\* CompareLastPractice that never rejects.
CompareLastPracticeAlways(ts, last_practice) ==
  CASE last_practice.k = "absent" -> "gt"
    [] last_practice.k = "dt" -> "gt"
    [] OTHER -> "raise"

\* ts > lesson_entry.get('last_practice', datetime.min): "gt", "le", or
\* "raise" for the TypeError of comparing a datetime with None or a text.
CompareLastPractice(ts, last_practice) ==
  CASE last_practice.k = "absent" -> "gt"
    [] last_practice.k = "dt" -> IF ts > last_practice.v THEN "gt" ELSE "le"
    [] OTHER -> "raise"

\* MessageBranch with < in place of <= in the check against the existing mark.
MessageBranchLt(st, msg, ts, existing_last_message) ==
  IF Truthy(existing_last_message) /\ ts < existing_last_message.v THEN st
  ELSE IF Truthy(st.last_message_timedate) /\ ts <= st.last_message_timedate.v THEN st
  ELSE [st EXCEPT
         !.lessons_dict =
           IF DictHas(@, msg.lesson)
           THEN DictPut(@, [DictGet(@, msg.lesson) EXCEPT
                              !.message_count = CountPlusOne(@)])
           ELSE DictPut(@, NewMessageLesson(msg)),
         !.last_message_timedate = RaiseMark(@, ts)]

\* The branch msg_type == 'message' for a parsed timestamp ts.
MessageBranch(st, msg, ts, existing_last_message) ==
  IF Truthy(existing_last_message) /\ ts <= existing_last_message.v THEN st
  ELSE IF Truthy(st.last_message_timedate) /\ ts <= st.last_message_timedate.v THEN st
  ELSE [st EXCEPT
         !.lessons_dict =
           IF DictHas(@, msg.lesson)
           THEN DictPut(@, [DictGet(@, msg.lesson) EXCEPT
                              !.message_count = CountPlusOne(@)])
           ELSE DictPut(@, NewMessageLesson(msg)),
         !.last_message_timedate = RaiseMark(@, ts)]

\* PracticeBranch that raises the student-level mark before the lesson-level
\* check instead of after it.
PracticeBranchMarkFirst(st, msg, ts, existing_last_practice) ==
  IF Truthy(existing_last_practice) /\ ts <= existing_last_practice.v THEN st
  ELSE IF Truthy(st.last_practice_timedate) /\ ts <= st.last_practice_timedate.v THEN st
  ELSE IF DictHas(st.lessons_dict, msg.lesson)
  THEN LET lesson_entry == DictGet(st.lessons_dict, msg.lesson)
           cmp == CompareLastPractice(ts, lesson_entry.last_practice)
       IN  CASE cmp = "raise" -> [st EXCEPT !.raised = TRUE]
             [] cmp = "le" -> [st EXCEPT !.last_practice_timedate = RaiseMark(@, ts)]
             [] OTHER ->
                [st EXCEPT
                  !.lessons_dict = DictPut(@,
                     [lesson_entry EXCEPT
                        !.practice_count = CountPlusOne(@),
                        !.teacher = msg.teacher,
                        !.last_practice = DtV(ts),
                        !.first_practice = IF ~Truthy(@) THEN DtV(ts) ELSE @]),
                  !.last_practice_timedate = RaiseMark(@, ts)]
  ELSE [st EXCEPT
         !.lessons_dict = DictPut(@, NewPracticeLesson(msg, ts)),
         !.last_practice_timedate = RaiseMark(@, ts)]

\* PracticeBranch that sets first_practice at every accepted event.
PracticeBranchFirstAlways(st, msg, ts, existing_last_practice) ==
  IF Truthy(existing_last_practice) /\ ts <= existing_last_practice.v THEN st
  ELSE IF Truthy(st.last_practice_timedate) /\ ts <= st.last_practice_timedate.v THEN st
  ELSE IF DictHas(st.lessons_dict, msg.lesson)
  THEN LET lesson_entry == DictGet(st.lessons_dict, msg.lesson)
           cmp == CompareLastPractice(ts, lesson_entry.last_practice)
       IN  CASE cmp = "raise" -> [st EXCEPT !.raised = TRUE]
             [] cmp = "le" -> st
             [] OTHER ->
                [st EXCEPT
                  !.lessons_dict = DictPut(@,
                     [lesson_entry EXCEPT
                        !.practice_count = CountPlusOne(@),
                        !.teacher = msg.teacher,
                        !.last_practice = DtV(ts),
                        !.first_practice = DtV(ts)]),
                  !.last_practice_timedate = RaiseMark(@, ts)]
  ELSE [st EXCEPT
         !.lessons_dict = DictPut(@, NewPracticeLesson(msg, ts)),
         !.last_practice_timedate = RaiseMark(@, ts)]

\* The branch msg_type == 'practice' for a parsed timestamp ts.
PracticeBranch(st, msg, ts, existing_last_practice) ==
  IF Truthy(existing_last_practice) /\ ts <= existing_last_practice.v THEN st
  ELSE IF Truthy(st.last_practice_timedate) /\ ts <= st.last_practice_timedate.v THEN st
  ELSE IF DictHas(st.lessons_dict, msg.lesson)
  THEN LET lesson_entry == DictGet(st.lessons_dict, msg.lesson)
           cmp == CompareLastPractice(ts, lesson_entry.last_practice)
       IN  CASE cmp = "raise" -> [st EXCEPT !.raised = TRUE]
             [] cmp = "le" -> st
             [] OTHER ->
                [st EXCEPT
                  !.lessons_dict = DictPut(@,
                     [lesson_entry EXCEPT
                        !.practice_count = CountPlusOne(@),
                        !.teacher = msg.teacher,
                        !.last_practice = DtV(ts),
                        !.first_practice = IF ~Truthy(@) THEN DtV(ts) ELSE @]),
                  !.last_practice_timedate = RaiseMark(@, ts)]
  ELSE [st EXCEPT
         !.lessons_dict = DictPut(@, NewPracticeLesson(msg, ts)),
         !.last_practice_timedate = RaiseMark(@, ts)]

\* One iteration of "for msg in student_messages"; an exception ends the
\* loop, so a raised state is left as it is.
ProcessMsg(st, msg, existing_last_message, existing_last_practice) ==
  IF st.raised THEN st
  ELSE IF ~parse_timestamp(msg.current_timestamp).ok THEN [st EXCEPT !.raised = TRUE]
  ELSE LET ts == parse_timestamp(msg.current_timestamp).dt
       IN  CASE msg.message_type = "message" ->
                  MessageBranch(st, msg, ts, existing_last_message)
             [] msg.message_type = "practice" ->
                  PracticeBranch(st, msg, ts, existing_last_practice)
             [] OTHER -> st

RECURSIVE LoopTrace(_, _, _, _)
\* The loop states: trace[1] before the first message, trace[i + 1] after
\* student_messages[i].
LoopTrace(trace, msgs, elm, elp) ==
  IF msgs = <<>> THEN trace
  ELSE LoopTrace(Append(trace, ProcessMsg(trace[Len(trace)], Head(msgs), elm, elp)),
                 Tail(msgs), elm, elp)

\* ------------------------------------------------ process_student_messages
\* lesson[key] = format_timestamp(lesson[key]) for the datetime values.
FormatField(x) == IF x.k = "dt" THEN format_timestamp(x.v) ELSE x

FormatLesson(lesson) ==
  [lesson EXCEPT !.first_practice = FormatField(@), !.last_practice = FormatField(@)]

\* The state of the loop before the first message.
LoopStart(lessons_dict) ==
  [lessons_dict |-> lessons_dict, last_message_timedate |-> NoneV,
   last_practice_timedate |-> NoneV, raised |-> FALSE]

\* What a call that raised leaves: no update operation.
RaisedResult(existing_doc) ==
  [raised |-> TRUE, is_new |-> ~existing_doc.exists, trace |-> <<>>,
   current_lesson |-> <<>>, lessons |-> <<>>,
   set_last_message |-> FALSE, last_message_timedate |-> NoneV,
   set_last_practice |-> FALSE, last_practice_timedate |-> NoneV,
   set_created_at |-> FALSE, set_updated_at |-> FALSE, unset_total_messages |-> FALSE]

\* process_student_messages(student_messages, stats_collection), with
\* existing_doc the answer of find_one: the update operation it returns
\* (the keys of $set as set_... flags), and the loop states it went through.
process_student_messages(existing_doc, student_messages) ==
  LET first_msg == student_messages[1]
      current_lesson == first_msg.lesson
      existing_last_message ==
        ExistingMark(existing_doc, existing_doc.last_message_timedate)
      existing_last_practice ==
        ExistingMark(existing_doc, existing_doc.last_practice_timedate)
      loaded == IF existing_doc.exists
                THEN LoadLessons(<<>>, existing_doc.lessons) ELSE <<>>
      trace == LoopTrace(<<LoopStart(loaded)>>, student_messages,
                         existing_last_message.val, existing_last_practice.val)
      final == trace[Len(trace)]
      lessons_dict ==
        IF DictHas(final.lessons_dict, current_lesson) THEN final.lessons_dict
        ELSE DictPut(final.lessons_dict, ZeroLesson(current_lesson, first_msg.teacher))
      sorted == SortLessons(<<>>, lessons_dict)
      lessons_list == [i \in 1..Len(sorted) |-> FormatLesson(sorted[i])]
  IN  IF ~existing_last_message.ok \/ ~existing_last_practice.ok
      THEN RaisedResult(existing_doc)
      ELSE IF final.raised THEN [RaisedResult(existing_doc) EXCEPT !.trace = trace]
      ELSE [raised |-> FALSE,
            is_new |-> ~existing_doc.exists,
            trace |-> trace,
            current_lesson |-> current_lesson,
            lessons |-> lessons_list,
            set_last_message |-> Truthy(final.last_message_timedate),
            last_message_timedate |-> FormatField(final.last_message_timedate),
            set_last_practice |-> Truthy(final.last_practice_timedate),
            last_practice_timedate |-> FormatField(final.last_practice_timedate),
            set_created_at |-> ~existing_doc.exists,
            set_updated_at |-> TRUE,
            unset_total_messages |-> TRUE]

\* ------------------------------------------------------------- the store
\* The answer of find_one when no document has the uniq_id.
NoDoc ==
  [exists |-> FALSE, lessons |-> <<>>, current_lesson |-> <<>>,
   last_message_timedate |-> Absent, last_practice_timedate |-> Absent,
   created_at |-> Absent, updated_at |-> Absent, total_messages |-> Absent]

\* update_one that leaves the lessons of a document that exists alone.
update_one_keeps_lessons(doc, op, stamp) ==
  IF op.raised THEN doc
  ELSE [exists |-> TRUE,
        lessons |-> IF doc.exists THEN doc.lessons ELSE op.lessons,
        current_lesson |-> op.current_lesson,
        last_message_timedate |->
          IF op.set_last_message THEN op.last_message_timedate
          ELSE doc.last_message_timedate,
        last_practice_timedate |->
          IF op.set_last_practice THEN op.last_practice_timedate
          ELSE doc.last_practice_timedate,
        created_at |-> IF op.set_created_at THEN IntV(stamp) ELSE doc.created_at,
        updated_at |-> IF op.set_updated_at THEN IntV(stamp) ELSE doc.updated_at,
        total_messages |-> IF op.unset_total_messages THEN Absent ELSE doc.total_messages]

\* update_one that sets both marks from the operation whether or not the
\* operation has them.
update_one_marks_always(doc, op, stamp) ==
  IF op.raised THEN doc
  ELSE [exists |-> TRUE,
        lessons |-> op.lessons,
        current_lesson |-> op.current_lesson,
        last_message_timedate |-> op.last_message_timedate,
        last_practice_timedate |-> op.last_practice_timedate,
        created_at |-> IF op.set_created_at THEN IntV(stamp) ELSE doc.created_at,
        updated_at |-> IF op.set_updated_at THEN IntV(stamp) ELSE doc.updated_at,
        total_messages |-> IF op.unset_total_messages THEN Absent ELSE doc.total_messages]

\* The body of load's try block after the merge: update_one(filter, update,
\* upsert=True) on the stored document doc at time stamp, or nothing at all
\* when the merge raised (the except clause only counts the error).
update_one(doc, op, stamp) ==
  IF op.raised THEN doc
  ELSE [exists |-> TRUE,
        lessons |-> op.lessons,
        current_lesson |-> op.current_lesson,
        last_message_timedate |->
          IF op.set_last_message THEN op.last_message_timedate
          ELSE doc.last_message_timedate,
        last_practice_timedate |->
          IF op.set_last_practice THEN op.last_practice_timedate
          ELSE doc.last_practice_timedate,
        created_at |-> IF op.set_created_at THEN IntV(stamp) ELSE doc.created_at,
        updated_at |-> IF op.set_updated_at THEN IntV(stamp) ELSE doc.updated_at,
        total_messages |-> IF op.unset_total_messages THEN Absent ELSE doc.total_messages]

\* ---------------------------------------------------------------- inputs
LessonLabels == {<<"2">>, <<"1", "0">>}
Teachers == {"A", "B"}
MessageTypes == {"message", "practice"}
Minutes == 0..MaxMinute

\* 'HH:MM, DD.MM.YYYY' texts on the minute, and ISO texts 30 s after it.
TimestampTexts ==
  {CustomText(m) : m \in Minutes} \cup
  {IsoText(m * SecondsPerMinute + 30) : m \in Minutes}

\* The records of one student that transform hands to load: the teacher
\* comes from the student's sheet row, so one group carries one teacher.
MessagesOf(teacher) ==
  [message_type : MessageTypes, lesson : LessonLabels,
   teacher : {teacher}, current_timestamp : TimestampTexts]

\* The non-empty groups of at most n records.
BatchesUpTo(n) ==
  UNION {[1..len -> MessagesOf(t)] : len \in 1..n, t \in Teachers}

Batches == BatchesUpTo(MaxBatch)

StoredLesson(label, teacher, pcount, mcount, first, last, paid) ==
  [lesson |-> label, teacher |-> teacher, practice_count |-> pcount,
   message_count |-> mcount, first_practice |-> first, last_practice |-> last,
   paid |-> paid]

StoredDoc(lessons, current, lastMessage, lastPractice, total) ==
  [exists |-> TRUE, lessons |-> lessons, current_lesson |-> current,
   last_message_timedate |-> lastMessage, last_practice_timedate |-> lastPractice,
   created_at |-> IntV(0), updated_at |-> IntV(0), total_messages |-> total]

\* Documents with one lesson "2": every last_practice the code can have
\* written (None for a lesson made by a message, a text) or inherited (no
\* such key; a value ahead of the student-level mark after a backfill).
OneLessonDocs ==
  {StoredDoc(<<StoredLesson(<<"2">>, "B",
                            IntV(IF last.k = "str" THEN 2 ELSE 0), IntV(1),
                            IF last.k = "str" THEN StrV(0) ELSE last, last,
                            BoolV(last.k = "str"))>>,
             <<"2">>, mark, mark, Absent) :
     last \in {Absent, NoneV, StrV(0), StrV(1)}, mark \in {Absent, StrV(0)}}

\* A document of the older schema: no message_count, no paid, no
\* first_practice, the deprecated total_messages.
LegacyDoc ==
  StoredDoc(<<[lesson |-> <<"1", "0">>, teacher |-> "B", practice_count |-> IntV(1),
               message_count |-> Absent, first_practice |-> Absent,
               last_practice |-> StrV(0), paid |-> Absent]>>,
            <<"1", "0">>, NoneV, StrV(0), IntV(3))

\* A document with both lessons, as two earlier merges leave it.
TwoLessonDoc ==
  StoredDoc(<<StoredLesson(<<"2">>, "A", IntV(1), IntV(1), StrV(0), StrV(0), BoolV(TRUE)),
              StoredLesson(<<"1", "0">>, "B", IntV(0), IntV(1), NoneV, NoneV, BoolV(FALSE))>>,
            <<"1", "0">>, StrV(1), StrV(0), Absent)

InitDocs == {NoDoc, LegacyDoc, TwoLessonDoc} \cup OneLessonDocs

\* The reorderings of a group.
Reorderings(msgs) ==
  {[i \in 1..Len(msgs) |-> msgs[p[i]]] :
     p \in {q \in [1..Len(msgs) -> 1..Len(msgs)] :
              \A i, j \in 1..Len(msgs) : q[i] = q[j] => i = j}}

\* ----------------------------------------------------------------- state
VARIABLES
  db,        \* the student's stored document (NoDoc: none yet)
  existing,  \* the document the first merge of the group found
  batch,     \* the group being merged
  op,        \* the update operation of the latest merge
  prevDb,    \* the stored document before the latest write
  prevOp,    \* the update operation of the merge before the latest
  now,       \* the clock of get_current_timestamp
  pc,        \* what has run so far
  runs,      \* the runs of load under way: what each read and computed
  collection,\* the documents of student_stats, in order of insertion
  records,   \* the transformed_records handed to load
  loaded,    \* the latest call of load: what it found and what it returned
  accepted,  \* the events the merges of the student accepted so far, in order
  messages,  \* the documents of the collection of MessageSaver
  savers,    \* the callers of MessageSaver: what each saves and was returned
  migration, \* the runs of migrate_existing_data: what each found and returned
  sheets,    \* the latest call that selects practice dates for the sheet
  conn       \* the class MongoDBConnection: its instance, client and handles

vars == <<db, existing, batch, op, prevDb, prevOp, now, pc, runs,
          collection, records, loaded, accepted, messages, savers,
          migration, sheets, conn>>

\* The variables of the calls of load on a whole collection.
loadVars == <<collection, records, loaded>>

\* No call of load yet.
NoLoad == [loads |-> 0]

\* The variables of the callers of MessageSaver, and with them the events
\* accepted so far: what the merges of one group and load leave alone.
saverVars == <<accepted, messages, savers>>

NoOp == RaisedResult(NoDoc)

Runners == {1, 2}
Idle == [pc |-> "idle", msgs |-> <<>>, snap |-> NoDoc, op |-> NoOp, wrote_at |-> 0]

\* A caller of MessageSaver that has not called yet.
IdleSaver == [pc |-> "idle"]

\* Nothing accepted yet, an empty collection of MessageSaver, no caller.
NothingSaved ==
  /\ accepted = <<>>
  /\ messages = <<>>
  /\ savers = [r \in Runners |-> IdleSaver]

\* The variables of the migration, of the practice dates for the sheet and
\* of the connection class: what load and MessageSaver leave alone.
toolVars == <<migration, sheets, conn>>

\* No run of migrate_existing_data yet.
NoMigration == [runs |-> 0]

\* No call that selects practice dates yet.
NoSelection == [call |-> "none"]

\* The class attributes of MongoDBConnection as the class statement leaves
\* them: no instance, no client, no database handle, and no call yet.
\* instances counts the objects __new__ made, held says that a caller has
\* the instance, client and the three handles say "is not None", closed
\* that close() ran and no constructor or get_*_database() call since,
\* connects counts the calls of _connect, last is what the latest call did.
NoCall ==
  [call |-> "none", which |-> "none", connected |-> FALSE, client_before |-> FALSE,
   handle_before |-> FALSE, closed_before |-> FALSE, raised |-> FALSE,
   returned |-> FALSE]
ClassLoaded ==
  [instances |-> 0, held |-> FALSE, client |-> FALSE,
   students_db |-> FALSE, sales_db |-> FALSE, logger_db |-> FALSE,
   closed |-> FALSE, connects |-> 0, calls |-> 0, last |-> NoCall]

\* No migration, no selection of practice dates, no connection.
NothingCalled ==
  /\ migration = NoMigration
  /\ sheets = NoSelection
  /\ conn = ClassLoaded

\* ------------------------------------------ one group merged, and again
InitBatch ==
  /\ existing \in InitDocs
  /\ batch \in Batches
  /\ db = existing
  /\ prevDb = existing
  /\ op = NoOp
  /\ prevOp = NoOp
  /\ now = 1
  /\ pc = "start"
  /\ runs = [r \in Runners |-> Idle]
  /\ collection = <<>>
  /\ records = <<>>
  /\ loaded = NoLoad
  /\ NothingSaved
  /\ NothingCalled

\* The loop body of load for the group: the merge and its update_one.
MergeGroup(msgs, from) ==
  /\ op' = process_student_messages(from, msgs)
  /\ db' = update_one(from, op', now)
  /\ prevDb' = db
  /\ prevOp' = op
  /\ now' = now + 1

\* load on the batch.
Load ==
  /\ pc = "start"
  /\ MergeGroup(batch, db)
  /\ pc' = "merged"
  /\ UNCHANGED <<existing, batch, runs>>
  /\ UNCHANGED loadVars
  /\ UNCHANGED saverVars
  /\ UNCHANGED toolVars

\* load on the same batch once more, against the document the first left.
LoadAgain ==
  /\ pc = "merged"
  /\ MergeGroup(batch, db)
  /\ pc' = "remerged"
  /\ UNCHANGED <<existing, batch, runs>>
  /\ UNCHANGED loadVars
  /\ UNCHANGED saverVars
  /\ UNCHANGED toolVars

\* load on a reordering of the batch, against the document the first found.
LoadReordered ==
  /\ pc = "merged"
  /\ \E msgs \in Reorderings(batch) \ {batch} :
       /\ batch' = msgs
       /\ MergeGroup(msgs, existing)
  /\ pc' = "reordered"
  /\ UNCHANGED <<existing, runs>>
  /\ UNCHANGED loadVars
  /\ UNCHANGED saverVars
  /\ UNCHANGED toolVars

NextBatch == Load

\* One group merged by load.
SpecBatch == InitBatch /\ [][NextBatch]_vars

NextTwice == Load \/ LoadAgain

\* One group merged by load, then the same group merged again.
SpecTwice == InitBatch /\ [][NextTwice]_vars

NextOrder == Load \/ LoadReordered

\* One group merged by load, then a reordering of it merged into the
\* document the first merge started from.
SpecOrder == InitBatch /\ [][NextOrder]_vars

\* ---------------------------------- documents of older or damaged shape
\* A lesson entry without the 'lesson' key.
UnlabelledLesson ==
  [teacher |-> "B", practice_count |-> IntV(1), message_count |-> IntV(0),
   first_practice |-> StrV(0), last_practice |-> StrV(0), paid |-> BoolV(FALSE)]

\* Documents whose lessons list holds entries that are not dicts or have
\* no label, counts that are negative, not numbers or missing, a paid that
\* is not a boolean, timestamps that parse_timestamp cannot read, and
\* entries of the schema before message_count and paid.
OldShapeDocs ==
  {StoredDoc(<<BadV,
               StoredLesson(<<"2">>, "B", IntV(1), IntV(0), StrV(0), StrV(0), BoolV(TRUE)),
               UnlabelledLesson>>,
             <<"2">>, Absent, StrV(0), Absent),
   StoredDoc(<<UnlabelledLesson, BadV>>, <<"2">>, Absent, Absent, Absent),
   StoredDoc(<<StoredLesson(<<"2">>, "B", IntV(-3), BadV, StrV(0), StrV(0), IntV(1))>>,
             <<"2">>, StrV(0), StrV(0), Absent),
   StoredDoc(<<StoredLesson(<<"1", "0">>, "B", Absent, IntV(-1), Absent, StrV(0), NoneV)>>,
             <<"1", "0">>, Absent, StrV(0), Absent),
   LegacyDoc,
   StoredDoc(<<StoredLesson(<<"2">>, "B", IntV(1), IntV(0), BadV, BadV, BoolV(FALSE))>>,
             <<"2">>, Absent, Absent, Absent),
   StoredDoc(<<StoredLesson(<<"2">>, "B", IntV(2), Absent, StrV(0), StrV(1), Absent),
               StoredLesson(<<"1", "0">>, "A", IntV(0), IntV(1), NoneV, NoneV, BoolV(FALSE))>>,
             <<"1", "0">>, StrV(1), StrV(1), IntV(1))}

InitStored ==
  /\ existing \in OldShapeDocs
  /\ batch \in Batches
  /\ db = existing
  /\ prevDb = existing
  /\ op = NoOp
  /\ prevOp = NoOp
  /\ now = 1
  /\ pc = "start"
  /\ runs = [r \in Runners |-> Idle]
  /\ collection = <<>>
  /\ records = <<>>
  /\ loaded = NoLoad
  /\ NothingSaved
  /\ NothingCalled

NextStored == Load

\* One group merged by load into a document of older or damaged shape.
SpecStored == InitStored /\ [][NextStored]_vars

\* ------------------------------------- records with a label stored twice
\* Records whose lessons list holds two entries with one label: the list is
\* stored as it is written, so an edit outside load can leave such a list.
DuplicateDocs ==
  {StoredDoc(<<StoredLesson(<<"2">>, "B", IntV(5), IntV(3), StrV(0), StrV(0), BoolV(TRUE)),
               StoredLesson(<<"2">>, "A", IntV(1), IntV(0), StrV(0), StrV(0), BoolV(FALSE))>>,
             <<"2">>, StrV(0), StrV(0), Absent),
   StoredDoc(<<StoredLesson(<<"1", "0">>, "B", IntV(2), IntV(1), StrV(0), StrV(0), BoolV(FALSE)),
               StoredLesson(<<"2">>, "B", IntV(4), IntV(2), StrV(0), StrV(0), BoolV(TRUE)),
               StoredLesson(<<"1", "0">>, "A", IntV(0), IntV(1), NoneV, NoneV, BoolV(TRUE))>>,
             <<"1", "0">>, Absent, StrV(0), Absent)}

InitDuplicates ==
  /\ existing \in DuplicateDocs
  /\ batch \in Batches
  /\ db = existing
  /\ prevDb = existing
  /\ op = NoOp
  /\ prevOp = NoOp
  /\ now = 1
  /\ pc = "start"
  /\ runs = [r \in Runners |-> Idle]
  /\ collection = <<>>
  /\ records = <<>>
  /\ loaded = NoLoad
  /\ NothingSaved
  /\ NothingCalled

NextDuplicates == Load

\* One group merged by load into a record with a label stored twice.
SpecDuplicates == InitDuplicates /\ [][NextDuplicates]_vars

\* ------------------------------------------------ labels of every kind
\* Lesson labels without digits, with digits among other characters, and
\* with a number above the key of the labels without digits.
SortLabels ==
  {<<"2">>, <<"a", "2">>, <<"x">>, <<"y">>, <<"1", "0", "0", "0", "0">>}

\* The groups of one teacher over these labels, on the minute.
LabelBatches ==
  UNION {[1..len -> [message_type : MessageTypes, lesson : SortLabels,
                     teacher : {"A"},
                     current_timestamp : {CustomText(m) : m \in Minutes}]] :
         len \in 1..MaxBatch}

\* A record whose lessons are stored out of order.
UnsortedDoc ==
  StoredDoc(<<StoredLesson(<<"y">>, "B", IntV(0), IntV(1), NoneV, NoneV, BoolV(FALSE)),
              StoredLesson(<<"1", "0", "0", "0", "0">>, "B", IntV(0), IntV(1),
                           NoneV, NoneV, BoolV(FALSE))>>,
            <<"y">>, Absent, Absent, Absent)

InitLabels ==
  /\ existing \in {NoDoc, UnsortedDoc}
  /\ batch \in LabelBatches
  /\ db = existing
  /\ prevDb = existing
  /\ op = NoOp
  /\ prevOp = NoOp
  /\ now = 1
  /\ pc = "start"
  /\ runs = [r \in Runners |-> Idle]
  /\ collection = <<>>
  /\ records = <<>>
  /\ loaded = NoLoad
  /\ NothingSaved
  /\ NothingCalled

NextLabels == Load

\* One group merged by load, over labels of every kind.
SpecLabels == InitLabels /\ [][NextLabels]_vars

\* ----------------------------------------------- merges one after another
\* The groups of the serial and of the interleaved runs: one record each.
SingleBatches == BatchesUpTo(1)

InitSerial ==
  /\ db \in InitDocs
  /\ existing = db
  /\ prevDb = db
  /\ batch = <<>>
  /\ op = NoOp
  /\ prevOp = NoOp
  /\ now = 1
  /\ pc = "serial"
  /\ runs = [r \in Runners |-> Idle]
  /\ collection = <<>>
  /\ records = <<>>
  /\ loaded = NoLoad
  /\ NothingSaved
  /\ NothingCalled

\* One run of load on a group of the student, start to end, at most
\* MaxMerges of them: the merge and its update_one with nothing in between.
LoadSerial ==
  /\ pc = "serial"
  /\ now <= MaxMerges
  /\ \E msgs \in SingleBatches :
       db' = update_one(db, process_student_messages(db, msgs), now)
  /\ prevDb' = db
  /\ now' = now + 1
  /\ UNCHANGED <<existing, batch, op, prevOp, pc, runs>>
  /\ UNCHANGED loadVars
  /\ UNCHANGED saverVars
  /\ UNCHANGED toolVars

NextSerial == LoadSerial

SpecSerial == InitSerial /\ [][NextSerial]_vars

\* ------------------------------------- merges from no record, remembered
\* The groups of these merges: one record of one teacher.
HistoryBatches == [1..1 -> MessagesOf("A")]

RECURSIVE AcceptedFrom(_, _, _)
\* The events from position i on that the loop of a merge accepted (each
\* changed the loop state), as [message_type, lesson, ts].
AcceptedFrom(trace, msgs, i) ==
  IF i > Len(msgs) THEN <<>>
  ELSE (IF trace[i + 1] # trace[i]
        THEN <<[message_type |-> msgs[i].message_type, lesson |-> msgs[i].lesson,
                ts |-> parse_timestamp(msgs[i].current_timestamp).dt]>>
        ELSE <<>>) \o AcceptedFrom(trace, msgs, i + 1)

\* The events accepted by a merge whose update was written.
AcceptedBy(update, msgs) ==
  IF update.raised THEN <<>> ELSE AcceptedFrom(update.trace, msgs, 1)

InitHistory ==
  /\ db = NoDoc
  /\ existing = NoDoc
  /\ prevDb = NoDoc
  /\ batch = <<>>
  /\ op = NoOp
  /\ prevOp = NoOp
  /\ now = 1
  /\ pc = "history"
  /\ runs = [r \in Runners |-> Idle]
  /\ collection = <<>>
  /\ records = <<>>
  /\ loaded = NoLoad
  /\ NothingSaved
  /\ NothingCalled

\* The next run of load on a group of the student, of at most MaxMerges.
LoadNext ==
  /\ pc = "history"
  /\ now <= MaxMerges
  /\ \E msgs \in HistoryBatches :
       /\ batch' = msgs
       /\ MergeGroup(msgs, db)
       /\ accepted' = accepted \o AcceptedBy(op', msgs)
  /\ UNCHANGED <<existing, pc, runs, messages, savers>>
  /\ UNCHANGED loadVars
  /\ UNCHANGED toolVars

NextHistory == LoadNext

\* Runs of load one after another on a student who starts with no record.
SpecHistory == InitHistory /\ [][NextHistory]_vars

\* ------------------------------------------------------ interleaved runs
\* The documents the interleaved runs start from.
ConcDocs == {NoDoc, TwoLessonDoc}

InitConc ==
  /\ db \in ConcDocs
  /\ existing = db
  /\ prevDb = db
  /\ batch = <<>>
  /\ op = NoOp
  /\ prevOp = NoOp
  /\ now = 1
  /\ pc = "conc"
  /\ runs = [r \in Runners |-> Idle]
  /\ collection = <<>>
  /\ records = <<>>
  /\ loaded = NoLoad
  /\ NothingSaved
  /\ NothingCalled

\* Run r of load: find_one for the group's student and the merge computed
\* from the document it returned.
Read(r) ==
  /\ pc = "conc"
  /\ runs[r].pc = "idle"
  /\ \E msgs \in SingleBatches :
       runs' = [runs EXCEPT ![r] =
                 [pc |-> "read", msgs |-> msgs, snap |-> db,
                  op |-> process_student_messages(db, msgs), wrote_at |-> 0]]
  /\ UNCHANGED <<db, existing, batch, op, prevDb, prevOp, now, pc>>
  /\ UNCHANGED loadVars
  /\ UNCHANGED saverVars
  /\ UNCHANGED toolVars

\* Run r of load: update_one with the operation it computed.
Write(r) ==
  /\ pc = "conc"
  /\ runs[r].pc = "read"
  /\ db' = update_one(db, runs[r].op, now)
  /\ prevDb' = db
  /\ now' = now + 1
  /\ runs' = [runs EXCEPT ![r].pc = "done", ![r].wrote_at = now]
  /\ UNCHANGED <<existing, batch, op, prevOp, pc>>
  /\ UNCHANGED loadVars
  /\ UNCHANGED saverVars
  /\ UNCHANGED toolVars

NextConc == \E r \in Runners : Read(r) \/ Write(r)

\* Two runs of load on one student's record, find_one and update_one of the
\* two in any order.
SpecConc == InitConc /\ [][NextConc]_vars

\* -------------------------------------------------- load on a collection
\* generate_uniq_id: the text f"{phone_number}_{name}" that is digested.
\* The digest is taken as injective, so the text stands for the identifier.
generate_uniq_id(phone_number, name) == phone_number \o <<"_">> \o name

RECURSIVE PhonesInOrder(_, _)
\* The keys of the defaultdict, in order of first appearance.
PhonesInOrder(seen, transformed_records) ==
  IF transformed_records = <<>> THEN seen
  ELSE LET phone_number == Head(transformed_records).phone_number
       IN  PhonesInOrder(IF \E i \in 1..Len(seen) : seen[i] = phone_number
                         THEN seen ELSE Append(seen, phone_number),
                         Tail(transformed_records))

\* aggregate_student_updates: one group per phone_number, in order of first
\* appearance, each with the records of that phone_number in input order.
aggregate_student_updates(transformed_records) ==
  LET keys == PhonesInOrder(<<>>, transformed_records)
  IN  [g \in 1..Len(keys) |->
        [phone_number |-> keys[g],
         student_messages |->
           SelectSeq(transformed_records, LAMBDA r : r.phone_number = keys[g])]]

\* The documents of the collection with the uniq_id.
Matching(coll, uniq_id) == {i \in 1..Len(coll) : coll[i].uniq_id = uniq_id}
FirstMatching(coll, uniq_id) ==
  CHOOSE i \in Matching(coll, uniq_id) : \A j \in Matching(coll, uniq_id) : i <= j

\* stats_collection.find_one({'uniq_id': uniq_id}).
find_one(coll, uniq_id) ==
  IF Matching(coll, uniq_id) = {} THEN NoDoc
  ELSE coll[FirstMatching(coll, uniq_id)].doc

\* collection_update_one that selects the document by phone_number and
\* sets uniq_id with the other fields.
collection_update_one_by_phone(coll, uniq_id, first_msg, update, stamp) ==
  LET found == {i \in 1..Len(coll) : coll[i].phone_number = first_msg.phone_number}
  IN  IF found = {}
      THEN Append(coll, [uniq_id |-> uniq_id,
                         phone_number |-> first_msg.phone_number,
                         name |-> first_msg.name,
                         doc |-> update_one(NoDoc, update, stamp)])
      ELSE LET i == CHOOSE i \in found : \A j \in found : i <= j
           IN  [coll EXCEPT ![i] =
                 [uniq_id |-> uniq_id,
                  phone_number |-> first_msg.phone_number,
                  name |-> first_msg.name,
                  doc |-> update_one(@.doc, update, stamp)]]

\* stats_collection.update_one({'uniq_id': uniq_id}, update, upsert=True):
\* $set and $unset on the first document with the uniq_id; with none, a
\* document made of the filter's uniq_id and the $set is inserted.
collection_update_one(coll, uniq_id, first_msg, update, stamp) ==
  IF Matching(coll, uniq_id) = {}
  THEN Append(coll, [uniq_id |-> uniq_id,
                     phone_number |-> first_msg.phone_number,
                     name |-> first_msg.name,
                     doc |-> update_one(NoDoc, update, stamp)])
  ELSE [coll EXCEPT ![FirstMatching(coll, uniq_id)] =
         [uniq_id |-> @.uniq_id,
          phone_number |-> first_msg.phone_number,
          name |-> first_msg.name,
          doc |-> update_one(@.doc, update, stamp)]]

\* The stats dict of load before the loop.
ZeroStats ==
  [students_processed |-> 0, new_students |-> 0, updated_students |-> 0,
   messages_loaded |-> 0, practices_loaded |-> 0, errors |-> 0]

\* sum(1 for msg in student_messages if msg['message_type'] == kind)
CountType(student_messages, kind) ==
  Cardinality({i \in 1..Len(student_messages) :
                 student_messages[i].message_type = kind})

\* LoadGroup whose except clause stamps the student's document with the time
\* of the failure (and inserts one when there is none).
LoadGroupTouchesOnError(acc, group, storage_raises) ==
  LET student_messages == group.student_messages
      first_msg == student_messages[1]
      uniq_id == generate_uniq_id(first_msg.phone_number, first_msg.name)
      existing_doc == find_one(acc.collection, uniq_id)
      update_operation == process_student_messages(existing_doc, student_messages)
      message_count == CountType(student_messages, "message")
      practice_count == CountType(student_messages, "practice")
      raised == storage_raises \/ update_operation.raised
      result == [phone_number |-> group.phone_number,
                 student_messages |-> student_messages,
                 uniq_id |-> uniq_id,
                 raised |-> raised,
                 trace |-> IF storage_raises THEN <<>> ELSE update_operation.trace]
  IN  IF raised
      THEN [acc EXCEPT
              !.stats.errors = @ + 1,
              !.results = Append(@, result),
              !.collection =
                 IF Matching(@, uniq_id) = {}
                 THEN Append(@, [uniq_id |-> uniq_id,
                                 phone_number |-> first_msg.phone_number,
                                 name |-> first_msg.name,
                                 doc |-> [NoDoc EXCEPT !.exists = TRUE,
                                                       !.updated_at = IntV(acc.now)]])
                 ELSE [@ EXCEPT ![FirstMatching(@, uniq_id)].doc.updated_at =
                                  IntV(acc.now)]]
      ELSE [collection |->
              collection_update_one(acc.collection, uniq_id, first_msg,
                                    update_operation, acc.now),
            stats |->
              [acc.stats EXCEPT
                 !.students_processed = @ + 1,
                 !.new_students =
                    IF update_operation.is_new THEN @ + 1 ELSE @,
                 !.updated_students =
                    IF update_operation.is_new THEN @ ELSE @ + 1,
                 !.messages_loaded = @ + message_count,
                 !.practices_loaded = @ + practice_count],
            now |-> acc.now + 1,
            results |-> Append(acc.results, result)]

\* LoadGroup that counts the student as processed at the start of the try
\* block, before the merge and the write.
LoadGroupCountsFirst(acc, group, storage_raises) ==
  LET student_messages == group.student_messages
      first_msg == student_messages[1]
      uniq_id == generate_uniq_id(first_msg.phone_number, first_msg.name)
      existing_doc == find_one(acc.collection, uniq_id)
      update_operation == process_student_messages(existing_doc, student_messages)
      message_count == CountType(student_messages, "message")
      practice_count == CountType(student_messages, "practice")
      raised == storage_raises \/ update_operation.raised
      result == [phone_number |-> group.phone_number,
                 student_messages |-> student_messages,
                 uniq_id |-> uniq_id,
                 raised |-> raised,
                 trace |-> IF storage_raises THEN <<>> ELSE update_operation.trace]
  IN  IF raised
      THEN [acc EXCEPT !.stats.students_processed = @ + 1,
                       !.stats.errors = @ + 1,
                       !.results = Append(@, result)]
      ELSE [collection |->
              collection_update_one(acc.collection, uniq_id, first_msg,
                                    update_operation, acc.now),
            stats |->
              [acc.stats EXCEPT
                 !.students_processed = @ + 1,
                 !.new_students =
                    IF update_operation.is_new THEN @ + 1 ELSE @,
                 !.updated_students =
                    IF update_operation.is_new THEN @ ELSE @ + 1,
                 !.messages_loaded = @ + message_count,
                 !.practices_loaded = @ + practice_count],
            now |-> acc.now + 1,
            results |-> Append(acc.results, result)]

\* One iteration of "for phone_number, student_messages in ...items()":
\* the try block and its except clause. acc is the collection, the stats,
\* the clock and what each iteration so far did; storage_raises says that
\* the storage raises in this iteration (find_one or update_one fails, and
\* nothing is written).
LoadGroup(acc, group, storage_raises) ==
  LET student_messages == group.student_messages
      first_msg == student_messages[1]
      uniq_id == generate_uniq_id(first_msg.phone_number, first_msg.name)
      existing_doc == find_one(acc.collection, uniq_id)
      update_operation == process_student_messages(existing_doc, student_messages)
      message_count == CountType(student_messages, "message")
      practice_count == CountType(student_messages, "practice")
      raised == storage_raises \/ update_operation.raised
      result == [phone_number |-> group.phone_number,
                 student_messages |-> student_messages,
                 uniq_id |-> uniq_id,
                 raised |-> raised,
                 trace |-> IF storage_raises THEN <<>> ELSE update_operation.trace]
  IN  IF raised
      THEN [acc EXCEPT !.stats.errors = @ + 1,
                       !.results = Append(@, result)]
      ELSE [collection |->
              collection_update_one(acc.collection, uniq_id, first_msg,
                                    update_operation, acc.now),
            stats |->
              [acc.stats EXCEPT
                 !.students_processed = @ + 1,
                 !.new_students =
                    IF update_operation.is_new THEN @ + 1 ELSE @,
                 !.updated_students =
                    IF update_operation.is_new THEN @ ELSE @ + 1,
                 !.messages_loaded = @ + message_count,
                 !.practices_loaded = @ + practice_count],
            now |-> acc.now + 1,
            results |-> Append(acc.results, result)]

RECURSIVE LoadGroupsStopAtError(_, _, _)
\* LoadGroups with the try around the loop: the first exception ends it.
LoadGroupsStopAtError(acc, groups, fault) ==
  IF groups = <<>> THEN acc
  ELSE LET next == LoadGroup(acc, Head(groups), fault = Len(acc.results) + 1)
       IN  IF next.results[Len(next.results)].raised THEN next
           ELSE LoadGroupsStopAtError(next, Tail(groups), fault)

RECURSIVE LoadGroups(_, _, _)
\* The loop of load over the groups; fault is the iteration in which the
\* storage raises (0: in none).
LoadGroups(acc, groups, fault) ==
  IF groups = <<>> THEN acc
  ELSE LoadGroups(LoadGroup(acc, Head(groups), fault = Len(acc.results) + 1),
                  Tail(groups), fault)

\* load(transformed_records) on the collection coll at clock stamp: the
\* collection it leaves, the stats it returns, and what each iteration did.
load(coll, transformed_records, fault, stamp) ==
  LET start == [collection |-> coll, stats |-> ZeroStats,
                now |-> stamp, results |-> <<>>]
  IN  IF transformed_records = <<>> THEN start
      ELSE LoadGroups(start, aggregate_student_updates(transformed_records), fault)

\* The phone numbers and names of the sheet rows: texts, as the sheet holds
\* them (normalize_phone_number keeps every printable character).
PhoneNumbers == {<<"1">>, <<"1", "_", "2">>}
Names == {<<"a">>, <<"2", "_", "a">>}

\* A timestamp text that neither format accepts.
BadText == [fmt |-> "bad", v |-> 0]

\* The records of load's input: the lesson and the teacher are those of
\* one sheet, the timestamp is a text of minute 0 or 1 or is unparsable.
TransformedRecords ==
  [message_type : MessageTypes, phone_number : PhoneNumbers, name : Names,
   lesson : {<<"2">>}, teacher : {"A"},
   current_timestamp : {CustomText(0), CustomText(1), BadText}]

\* The inputs of load of at most n records, the empty one included.
RecordsUpTo(n) == UNION {[1..len -> TransformedRecords] : len \in 0..n}

\* A document of the collection.
StoredStudent(phone_number, name, doc) ==
  [uniq_id |-> generate_uniq_id(phone_number, name),
   phone_number |-> phone_number, name |-> name, doc |-> doc]

\* The collections load starts from: empty, or with the record of one
\* student who has practised and written at minute 0.
InitCollections ==
  {<<>>,
   <<StoredStudent(<<"1">>, <<"a">>,
       StoredDoc(<<StoredLesson(<<"2">>, "B", IntV(2), IntV(1),
                                StrV(0), StrV(0), BoolV(TRUE))>>,
                 <<"2">>, StrV(0), StrV(0), Absent))>>}

InitLoad ==
  /\ collection \in InitCollections
  /\ records \in RecordsUpTo(MaxRecords)
  /\ loaded = NoLoad
  /\ NothingSaved
  /\ now = 1
  /\ pc = "start"
  /\ db = NoDoc
  /\ existing = NoDoc
  /\ prevDb = NoDoc
  /\ batch = <<>>
  /\ op = NoOp
  /\ prevOp = NoOp
  /\ runs = [r \in Runners |-> Idle]
  /\ NothingCalled

\* What a call of load leaves in the variables.
Loaded(n, before, fault, r) ==
  [loads |-> n, before |-> before, fault |-> fault,
   stats |-> r.stats, results |-> r.results]

\* One call of load(records); the storage raises in at most one iteration.
RunLoad ==
  /\ pc = "start"
  /\ \E fault \in 0..Len(aggregate_student_updates(records)) :
       LET r == load(collection, records, fault, now)
       IN  /\ collection' = r.collection
           /\ loaded' = Loaded(1, collection, fault, r)
           /\ now' = r.now
  /\ pc' = "loaded"
  /\ UNCHANGED <<db, existing, batch, op, prevDb, prevOp, runs, records>>
  /\ UNCHANGED saverVars
  /\ UNCHANGED toolVars

NextLoad == RunLoad

\* One call of load on a collection.
SpecLoad == InitLoad /\ [][NextLoad]_vars

InitLoadSerial ==
  /\ collection \in InitCollections
  /\ records = <<>>
  /\ loaded = NoLoad
  /\ NothingSaved
  /\ now = 1
  /\ pc = "loads"
  /\ db = NoDoc
  /\ existing = NoDoc
  /\ prevDb = NoDoc
  /\ batch = <<>>
  /\ op = NoOp
  /\ prevOp = NoOp
  /\ runs = [r \in Runners |-> Idle]
  /\ NothingCalled

\* The next call of load, of at most MaxMerges, on one record.
RunLoadNext ==
  /\ pc = "loads"
  /\ loaded.loads < MaxMerges
  /\ \E recs \in RecordsUpTo(1) \ {<<>>}, fault \in 0..1 :
       LET r == load(collection, recs, fault, now)
       IN  /\ records' = recs
           /\ collection' = r.collection
           /\ loaded' = Loaded(loaded.loads + 1, collection, fault, r)
           /\ now' = r.now
  /\ UNCHANGED <<db, existing, batch, op, prevDb, prevOp, runs, pc>>
  /\ UNCHANGED saverVars
  /\ UNCHANGED toolVars

NextLoadSerial == RunLoadNext

\* Calls of load one after another on a collection.
SpecLoadSerial == InitLoadSerial /\ [][NextLoadSerial]_vars

\* ------------------------------------------------------------ MessageSaver
\* generate_message_hash: the text f"{phone_number}|{timestamp}|{content}"
\* that is digested. The digest (SHA-256, 32 hex digits of it) is taken as
\* injective, so the text stands for the hash.
generate_message_hash(phone_number, timestamp, content) ==
  phone_number \o <<"|">> \o timestamp \o <<"|">> \o content

\* The keys a message must have.
RequiredFields == {"phone_number", "timestamp", "content"}

\* [f for f in required_fields if f not in message_data]; keys is the set
\* of the keys of the dict.
MissingFields(message_data) == RequiredFields \ message_data.keys

\* message_doc: the message with its hash (created_at and updated_at, the
\* clock readings, are left out).
MessageDoc(message_data) ==
  [message_hash |-> generate_message_hash(message_data.phone_number,
                                          message_data.timestamp,
                                          message_data.content),
   phone_number |-> message_data.phone_number,
   timestamp |-> message_data.timestamp,
   content |-> message_data.content]

\* collection.insert_one(message_doc) under the unique index on
\* message_hash that _setup_unique_index created: "raise" when the storage
\* fails, "duplicate" (DuplicateKeyError) when a document has the hash,
\* else "ok" and the document is in the collection. One atomic step.
insert_one(coll, doc, storage_raises) ==
  IF storage_raises THEN [outcome |-> "raise", collection |-> coll]
  ELSE IF \E i \in 1..Len(coll) : coll[i].message_hash = doc.message_hash
  THEN [outcome |-> "duplicate", collection |-> coll]
  ELSE [outcome |-> "ok", collection |-> Append(coll, doc)]

\* The dict save_message returns: after the insert, from the except
\* DuplicateKeyError clause, from the validation or the except Exception
\* clause.
SaveResult(outcome) ==
  CASE outcome = "ok" -> [success |-> TRUE, action |-> "inserted"]
    [] outcome = "duplicate" -> [success |-> TRUE, action |-> "skipped"]
    [] OTHER -> [success |-> FALSE, action |-> "error"]

\* save_message(message_data) on the collection coll: the collection it
\* leaves and the dict it returns.
save_message(coll, message_data, storage_raises) ==
  IF MissingFields(message_data) # {}
  THEN [collection |-> coll, result |-> SaveResult("missing")]
  ELSE LET done == insert_one(coll, MessageDoc(message_data), storage_raises)
       IN  [collection |-> done.collection, result |-> SaveResult(done.outcome)]

\* CountResult that has no branch for 'error'.
CountResultNoError(results, result) ==
  [results EXCEPT
     !.details = Append(@, result),
     !.inserted = IF result.action = "inserted" THEN @ + 1 ELSE @,
     !.skipped = IF result.action = "skipped" THEN @ + 1 ELSE @]

\* The body of the loop of save_messages_batch after save_message: the
\* result is appended to details and counted by its action.
CountResult(results, result) ==
  [results EXCEPT
     !.details = Append(@, result),
     !.inserted = IF result.action = "inserted" THEN @ + 1 ELSE @,
     !.skipped = IF result.action = "skipped" THEN @ + 1 ELSE @,
     !.errors = IF result.action = "error" THEN @ + 1 ELSE @]

RECURSIVE SaveLoop(_, _, _)
\* "for message in messages" of save_messages_batch; fault is the
\* iteration in which the storage raises (0: in none). acc holds the
\* collection, the results dict and, in log, the collection as each
\* iteration left it.
SaveLoop(acc, msgs, fault) ==
  IF msgs = <<>> THEN acc
  ELSE LET saved == save_message(acc.collection, Head(msgs),
                                 fault = Len(acc.log) + 1)
       IN  SaveLoop([collection |-> saved.collection,
                     results |-> CountResult(acc.results, saved.result),
                     log |-> Append(acc.log, saved.collection)],
                    Tail(msgs), fault)

\* save_messages_batch(messages) on the collection coll.
save_messages_batch(coll, msgs, fault) ==
  SaveLoop([collection |-> coll,
            results |-> [total |-> Len(msgs), inserted |-> 0, skipped |-> 0,
                         errors |-> 0, details |-> <<>>],
            log |-> <<>>],
           msgs, fault)

\* The messages handed to MessageSaver: phone_number is the sender's number
\* or, when no number is known, the sender's name as WhatsApp shows it;
\* timestamp and content are texts; a key may be missing.
SaverMessages ==
  [keys : {RequiredFields},
   phone_number : {<<"a">>, <<"a", "|", "b">>},
   timestamp : {<<"b">>, <<"c">>},
   content : {<<"d">>, <<"c", "|", "d">>}]
  \cup {[keys |-> RequiredFields \ {"phone_number"},
         phone_number |-> <<>>, timestamp |-> <<"b">>, content |-> <<"d">>],
        [keys |-> RequiredFields \ {"timestamp"},
         phone_number |-> <<"a">>, timestamp |-> <<>>, content |-> <<"d">>],
        [keys |-> RequiredFields \ {"content"},
         phone_number |-> <<"a">>, timestamp |-> <<"b">>, content |-> <<>>]}

\* The lists of at most MaxBatch messages.
SaverBatches == UNION {[1..len -> SaverMessages] : len \in 0..MaxBatch}

\* The collections the callers start from: empty, or with one message.
InitMessages ==
  {<<>>,
   <<MessageDoc([keys |-> RequiredFields, phone_number |-> <<"a">>,
                 timestamp |-> <<"b">>, content |-> <<"d">>])>>}

InitSaveBatch ==
  /\ messages \in InitMessages
  /\ savers = [r \in Runners |-> IdleSaver]
  /\ accepted = <<>>
  /\ pc = "saver"
  /\ now = 1
  /\ db = NoDoc
  /\ existing = NoDoc
  /\ prevDb = NoDoc
  /\ batch = <<>>
  /\ op = NoOp
  /\ prevOp = NoOp
  /\ runs = [r \in Runners |-> Idle]
  /\ collection = <<>>
  /\ records = <<>>
  /\ loaded = NoLoad
  /\ NothingCalled

\* One call of save_messages_batch; the storage raises in at most one
\* iteration.
SaveBatch ==
  /\ pc = "saver"
  /\ savers[1].pc = "idle"
  /\ \E msgs \in SaverBatches : \E fault \in 0..Len(msgs) :
       LET r == save_messages_batch(messages, msgs, fault)
       IN  /\ messages' = r.collection
           /\ savers' = [savers EXCEPT ![1] =
                          [pc |-> "done", batch |-> msgs, before |-> messages,
                           fault |-> fault, results |-> r.results, log |-> r.log]]
  /\ UNCHANGED <<db, existing, batch, op, prevDb, prevOp, now, pc, runs, accepted>>
  /\ UNCHANGED loadVars
  /\ UNCHANGED toolVars

NextSaveBatch == SaveBatch

\* One call of save_messages_batch on a collection.
SpecSaveBatch == InitSaveBatch /\ [][NextSaveBatch]_vars

InitSavers ==
  /\ messages \in InitMessages
  /\ savers = [r \in Runners |-> IdleSaver]
  /\ accepted = <<>>
  /\ pc = "savers"
  /\ now = 1
  /\ db = NoDoc
  /\ existing = NoDoc
  /\ prevDb = NoDoc
  /\ batch = <<>>
  /\ op = NoOp
  /\ prevOp = NoOp
  /\ runs = [r \in Runners |-> Idle]
  /\ collection = <<>>
  /\ records = <<>>
  /\ loaded = NoLoad
  /\ NothingCalled

\* Caller r of save_message: the validation and the hash, up to insert_one.
Validate(r) ==
  /\ pc = "savers"
  /\ savers[r].pc = "idle"
  /\ \E message_data \in SaverMessages :
       savers' = [savers EXCEPT ![r] =
                   IF MissingFields(message_data) # {}
                   THEN [pc |-> "done", message_data |-> message_data,
                         before |-> messages, after |-> messages,
                         storage_raises |-> FALSE,
                         result |-> SaveResult("missing")]
                   ELSE [pc |-> "hashed", message_data |-> message_data]]
  /\ UNCHANGED <<db, existing, batch, op, prevDb, prevOp, now, pc, runs,
                 accepted, messages>>
  /\ UNCHANGED loadVars
  /\ UNCHANGED toolVars

\* Caller r of save_message: insert_one and the dict returned.
Insert(r) ==
  /\ pc = "savers"
  /\ savers[r].pc = "hashed"
  /\ \E storage_raises \in BOOLEAN :
       LET saved == save_message(messages, savers[r].message_data, storage_raises)
       IN  /\ messages' = saved.collection
           /\ savers' = [savers EXCEPT ![r] =
                          [pc |-> "done", message_data |-> @.message_data,
                           before |-> messages, after |-> saved.collection,
                           storage_raises |-> storage_raises,
                           result |-> saved.result]]
  /\ UNCHANGED <<db, existing, batch, op, prevDb, prevOp, now, pc, runs, accepted>>
  /\ UNCHANGED loadVars
  /\ UNCHANGED toolVars

NextSavers == \E r \in Runners : Validate(r) \/ Insert(r)

\* Two callers of save_message on one collection, their steps in any order.
SpecSavers == InitSavers /\ [][NextSavers]_vars

\* --------------------------------------------------- migrate_existing_data
\* MigrateLesson that writes the defaults whether or not the keys are there.
MigrateLessonDefaults(lesson) ==
  IF ~IsDict(lesson) THEN lesson
  ELSE [lesson EXCEPT !.paid = BoolV(FALSE), !.message_count = IntV(0)]

\* One pass of "for lesson in lessons": an entry that is not a dict is
\* appended as it is; a dict is copied, and 'paid' = False and
\* 'message_count' = 0 are added to the copy when the key is missing.
MigrateLesson(lesson) ==
  IF ~IsDict(lesson) THEN lesson
  ELSE [lesson EXCEPT !.paid = IF @.k = "absent" THEN BoolV(FALSE) ELSE @,
                      !.message_count = IF @.k = "absent" THEN IntV(0) ELSE @]

\* updated_lessons at the end of the loop.
MigrateLessons(lessons) == [i \in 1..Len(lessons) |-> MigrateLesson(lessons[i])]

\* needs_update at the end of the loop: some dict lacks one of the keys.
NeedsUpdate(lessons) ==
  \E i \in 1..Len(lessons) :
    /\ IsDict(lessons[i])
    /\ lessons[i].paid.k = "absent" \/ lessons[i].message_count.k = "absent"

\* update_one({'uniq_id': uniq_id}, {'$set': {'lessons': ..., 'updated_at':
\* ...}}) without upsert: the first document with the uniq_id, if any.
SetLessons(coll, uniq_id, updated_lessons, stamp) ==
  IF Matching(coll, uniq_id) = {} THEN coll
  ELSE [coll EXCEPT ![FirstMatching(coll, uniq_id)].doc =
          [@ EXCEPT !.lessons = updated_lessons, !.updated_at = IntV(stamp)]]

RECURSIVE MigrateStudents(_, _, _, _, _)
\* The loop "for student in all_students" from student i on: found is what
\* find({}) returned, fault the student at which update_one raises (0: none).
MigrateStudents(acc, found, i, fault, stamp) ==
  IF i > Len(found) THEN acc
  ELSE LET student == found[i]
           lessons == student.doc.lessons
       IN  MigrateStudents(
             IF lessons = <<>> THEN acc
             ELSE IF ~NeedsUpdate(lessons) THEN acc
             ELSE IF fault = i THEN [acc EXCEPT !.errors = @ + 1]
             ELSE [acc EXCEPT
                     !.collection = SetLessons(@, student.uniq_id,
                                               MigrateLessons(lessons), stamp),
                     !.migrated = @ + 1],
             found, i + 1, fault, stamp)

\* migrate_existing_data() on the collection coll at clock stamp: the
\* collection it leaves and the counts it returns.
migrate_existing_data(coll, fault, stamp) ==
  MigrateStudents([collection |-> coll, migrated |-> 0, errors |-> 0],
                  coll, 1, fault, stamp)

\* An entry without the 'lesson' key and without 'paid'.
UnlabelledUnpaid ==
  [teacher |-> "B", practice_count |-> IntV(1), message_count |-> IntV(2),
   first_practice |-> StrV(0), last_practice |-> StrV(0), paid |-> Absent]

\* The documents the migration finds: of the schema before message_count
\* and paid, with one of the two keys only, with entries that are not dicts
\* or have no label, already complete, and without lessons.
MigrationDocs ==
  {LegacyDoc,
   StoredDoc(<<BadV,
               StoredLesson(<<"2">>, "B", IntV(3), Absent, StrV(0), StrV(1), BoolV(TRUE)),
               UnlabelledUnpaid>>,
             <<"2">>, StrV(0), StrV(1), IntV(2)),
   TwoLessonDoc,
   StoredDoc(<<>>, <<"2">>, Absent, Absent, Absent),
   StoredDoc(<<BadV>>, <<"2">>, Absent, Absent, Absent)}

\* The collections of at most two students; the unique index on uniq_id
\* keeps their identifiers apart.
MigrationCollections ==
  {<<>>} \cup
  {<<StoredStudent(<<"1">>, <<"a">>, d)>> : d \in MigrationDocs} \cup
  {<<StoredStudent(<<"1">>, <<"a">>, d), StoredStudent(<<"1", "_", "2">>, <<"a">>, e)>> :
     d \in MigrationDocs, e \in MigrationDocs}

InitMigration ==
  /\ collection \in MigrationCollections
  /\ migration = NoMigration
  /\ sheets = NoSelection
  /\ conn = ClassLoaded
  /\ pc = "migrate"
  /\ now = 1
  /\ records = <<>>
  /\ loaded = NoLoad
  /\ NothingSaved
  /\ db = NoDoc
  /\ existing = NoDoc
  /\ prevDb = NoDoc
  /\ batch = <<>>
  /\ op = NoOp
  /\ prevOp = NoOp
  /\ runs = [r \in Runners |-> Idle]

\* One run of migrate_existing_data, of at most MaxMerges one after
\* another; the storage raises at no student or at one.
RunMigration ==
  /\ pc = "migrate"
  /\ migration.runs < MaxMerges
  /\ \E fault \in 0..Len(collection) :
       LET r == migrate_existing_data(collection, fault, now)
       IN  /\ collection' = r.collection
           /\ migration' =
                [runs |-> migration.runs + 1,
                 before |-> collection,
                 fault |-> fault,
                 migrated |-> r.migrated,
                 errors |-> r.errors,
                 earlier |-> migration]
  /\ now' = now + 1
  /\ UNCHANGED <<db, existing, batch, op, prevDb, prevOp, pc, runs, records, loaded>>
  /\ UNCHANGED saverVars
  /\ UNCHANGED <<sheets, conn>>

NextMigration == RunMigration

\* Runs of migrate_existing_data one after another on a collection.
SpecMigration == InitMigration /\ [][NextMigration]_vars

\* ------------------------------------------------- practice dates, as text
\* A timestamp text 'HH:MM, DD.MM.YYYY' as its zero-padded fields in the
\* order of the text (fmt "dot"), 'HH:MM, N/N/YYYY' with its two numbers in
\* the fields day and month in the order of the text (fmt "slash"), or a
\* text of another shape (fmt "iso").
DotText(hour, day) ==
  [fmt |-> "dot", hour |-> hour, minute |-> 0, day |-> day, month |-> 11, year |-> 2025]
SlashText(hour, day) ==
  [fmt |-> "slash", hour |-> hour, minute |-> 0, day |-> day, month |-> 11, year |-> 2025]
OtherText == [fmt |-> "iso", hour |-> 0, minute |-> 0, day |-> 0, month |-> 0, year |-> 0]

\* The hours and days of the texts: a morning and an evening of two days.
Hours == {9, 21}
Days == {1, 2}
DotTexts == {DotText(h, d) : h \in Hours, d \in Days}

\* The datetime of a text: its fields as strptime reads them.
DateOf(text) ==
  [year |-> text.year, month |-> text.month, day |-> text.day,
   hour |-> text.hour, minute |-> text.minute]

\* a < b on datetimes.
DateLess(a, b) ==
  \/ a.year < b.year
  \/ a.year = b.year /\ a.month < b.month
  \/ a.year = b.year /\ a.month = b.month /\ a.day < b.day
  \/ a.year = b.year /\ a.month = b.month /\ a.day = b.day /\ a.hour < b.hour
  \/ /\ a.year = b.year /\ a.month = b.month /\ a.day = b.day /\ a.hour = b.hour
     /\ a.minute < b.minute

\* a < b on 'HH:MM, DD.MM.YYYY' texts as strings: character by character,
\* so by hour, minute, day, month, year in this order.
TextLess(a, b) ==
  \/ a.hour < b.hour
  \/ a.hour = b.hour /\ a.minute < b.minute
  \/ a.hour = b.hour /\ a.minute = b.minute /\ a.day < b.day
  \/ a.hour = b.hour /\ a.minute = b.minute /\ a.day = b.day /\ a.month < b.month
  \/ /\ a.hour = b.hour /\ a.minute = b.minute /\ a.day = b.day /\ a.month = b.month
     /\ a.year < b.year

\* ------------------------- SheetsUpdater.get_latest_practice_dates_from_mongo
\* SheetsUpdater.parse_date: [ok, dt]; ok = FALSE is the None it returns.
parse_date(date_str) ==
  IF date_str.fmt = "dot" THEN [ok |-> TRUE, dt |-> DateOf(date_str)]
  ELSE [ok |-> FALSE, dt |-> DateOf(date_str)]

\* The stage $match {'message_category': 'practice'}.
MatchPractice(coll) == SelectSeq(coll, LAMBDA d : d.message_category = "practice")

\* The _id values of the stage $group.
GroupIds(coll) == {coll[i].phone_number : i \in 1..Len(coll)}

\* {'$max': '$timestamp'} of a group: the greatest text in string order.
MaxTimestamp(coll, phone) ==
  CHOOSE t \in {coll[i].timestamp : i \in {j \in 1..Len(coll) : coll[j].phone_number = phone}} :
    \A i \in 1..Len(coll) :
      coll[i].phone_number = phone => ~TextLess(t, coll[i].timestamp)

\* get_latest_practice_dates_from_mongo(): phone_to_date, a phone whose
\* text does not parse left out.
get_latest_practice_dates_from_mongo(coll) ==
  LET matched == MatchPractice(coll)
      parsed == [p \in GroupIds(matched) |-> parse_date(MaxTimestamp(matched, p))]
  IN  [p \in {q \in GroupIds(matched) : parsed[q].ok} |-> parsed[p].dt]

\* The documents of the messages collection that the call reads.
SheetPhones == {"a", "b"}
PracticeDocs ==
  [phone_number : SheetPhones, message_category : MessageTypes, timestamp : DotTexts]

InitLatest ==
  /\ messages \in UNION {[1..len -> PracticeDocs] : len \in 0..MaxBatch}
  /\ savers = [r \in Runners |-> IdleSaver]
  /\ accepted = <<>>
  /\ NothingCalled
  /\ pc = "latest"
  /\ now = 1
  /\ db = NoDoc
  /\ existing = NoDoc
  /\ prevDb = NoDoc
  /\ batch = <<>>
  /\ op = NoOp
  /\ prevOp = NoOp
  /\ runs = [r \in Runners |-> Idle]
  /\ collection = <<>>
  /\ records = <<>>
  /\ loaded = NoLoad

\* One call of get_latest_practice_dates_from_mongo.
GetLatest ==
  /\ pc = "latest"
  /\ sheets.call = "none"
  /\ sheets' = [call |-> "latest",
                phone_to_date |-> get_latest_practice_dates_from_mongo(messages)]
  /\ UNCHANGED <<db, existing, batch, op, prevDb, prevOp, now, pc, runs>>
  /\ UNCHANGED loadVars
  /\ UNCHANGED saverVars
  /\ UNCHANGED <<migration, conn>>

NextLatest == GetLatest

\* The latest practice dates read from the messages collection.
SpecLatest == InitLatest /\ [][NextLatest]_vars

\* ------------------------------- load_sheets_updates.update_practice_dates
\* parse_timestamp of load_sheets_updates: [ok, dt]; ok = FALSE is the
\* ValueError it raises. '%H:%M, %m/%d/%Y' reads the first number of a
\* "slash" text as the month and the second as the day.
sheet_parse_timestamp(timestamp_str) ==
  CASE timestamp_str.fmt = "slash" ->
         [ok |-> TRUE,
          dt |-> [DateOf(timestamp_str) EXCEPT !.month = timestamp_str.day,
                                               !.day = timestamp_str.month]]
    [] timestamp_str.fmt = "dot" -> [ok |-> TRUE, dt |-> DateOf(timestamp_str)]
    [] OTHER -> [ok |-> FALSE, dt |-> DateOf(timestamp_str)]

\* The dict student_practices, in insertion order.
PracticeHas(d, phone) == \E i \in 1..Len(d) : d[i].phone_number = phone
PracticeIndex(d, phone) == CHOOSE i \in 1..Len(d) : d[i].phone_number = phone

\* KeepLatest that keeps the record that comes last.
KeepLast(student_practices, record) ==
  IF record.message_type # "practice" THEN student_practices
  ELSE IF ~sheet_parse_timestamp(record.current_timestamp).ok THEN student_practices
  ELSE LET entry == [phone_number |-> record.phone_number, record |-> record,
                     timestamp |-> sheet_parse_timestamp(record.current_timestamp).dt]
       IN  IF ~PracticeHas(student_practices, record.phone_number)
           THEN Append(student_practices, entry)
           ELSE [student_practices EXCEPT
                   ![PracticeIndex(student_practices, record.phone_number)] = entry]

\* One iteration of "for record in transformed_records": a practice record
\* whose timestamp parses replaces the entry of its phone number when it is
\* later than the entry's.
KeepLatest(student_practices, record) ==
  IF record.message_type # "practice" THEN student_practices
  ELSE IF ~sheet_parse_timestamp(record.current_timestamp).ok THEN student_practices
  ELSE LET entry == [phone_number |-> record.phone_number, record |-> record,
                     timestamp |-> sheet_parse_timestamp(record.current_timestamp).dt]
       IN  IF ~PracticeHas(student_practices, record.phone_number)
           THEN Append(student_practices, entry)
           ELSE LET at == PracticeIndex(student_practices, record.phone_number)
                IN  IF DateLess(student_practices[at].timestamp, entry.timestamp)
                    THEN [student_practices EXCEPT ![at] = entry]
                    ELSE student_practices

RECURSIVE SelectPractices(_, _)
\* student_practices after the loop over the records.
SelectPractices(student_practices, transformed_records) ==
  IF transformed_records = <<>> THEN student_practices
  ELSE SelectPractices(KeepLatest(student_practices, Head(transformed_records)),
                       Tail(transformed_records))

\* phone_to_row: the row number of the last row with the phone number
\* (rows after the header row, which is row 1).
RowOf(rows, phone) ==
  (CHOOSE i \in 1..Len(rows) :
     rows[i] = phone /\ \A j \in 1..Len(rows) : rows[j] = phone => j <= i) + 1

\* The statistics before the loop over student_practices.
ZeroSheetStats == [students_updated |-> 0, students_not_found |-> 0, errors |-> 0]

RECURSIVE QueueUpdates(_, _, _)
\* The loop over student_practices.items(): a student without a row is
\* counted as not found, the other gets a cell update with the date.
QueueUpdates(acc, student_practices, rows) ==
  IF student_practices = <<>> THEN acc
  ELSE LET e == Head(student_practices)
           found == \E i \in 1..Len(rows) : rows[i] = e.phone_number
       IN  QueueUpdates(
             IF ~found THEN [acc EXCEPT !.stats.students_not_found = @ + 1]
             ELSE [acc EXCEPT
                     !.updates = Append(@,
                        [row |-> RowOf(rows, e.phone_number),
                         value |-> [day |-> e.timestamp.day, month |-> e.timestamp.month,
                                    year |-> e.timestamp.year]]),
                     !.stats.students_updated = @ + 1],
             Tail(student_practices), rows)

\* What the sheet does to the call.
SheetOutcomes == {"ok", "no_client", "read_fails", "bad_headers", "update_fails"}

\* update_practice_dates(transformed_records) with a sheet that holds rows
\* and behaves as outcome says: the selection, the queued cell updates, the
\* cells written and the statistics returned.
update_practice_dates(transformed_records, rows, outcome) ==
  LET nothing == [student_practices |-> <<>>, updates |-> <<>>, written |-> <<>>,
                  stats |-> ZeroSheetStats]
      student_practices == SelectPractices(<<>>, transformed_records)
      queued == QueueUpdates([nothing EXCEPT !.student_practices = student_practices],
                             student_practices, rows)
  IN  IF transformed_records = <<>> THEN nothing
      ELSE IF outcome = "no_client" THEN [nothing EXCEPT !.stats.errors = 1]
      ELSE IF student_practices = <<>> THEN nothing
      ELSE IF outcome \in {"read_fails", "bad_headers"}
           THEN [nothing EXCEPT !.student_practices = student_practices,
                                !.stats.errors = 1]
      ELSE IF queued.updates = <<>> THEN queued
      ELSE IF outcome = "update_fails"
           THEN [queued EXCEPT !.stats.errors = @ + Len(queued.updates),
                               !.stats.students_updated = 0]
      ELSE [queued EXCEPT !.written = queued.updates]

\* The records handed to update_practice_dates: of both kinds, with texts
\* of the three shapes.
SheetRecords ==
  [message_type : MessageTypes, phone_number : SheetPhones, name : {"n"},
   current_timestamp : DotTexts \cup {SlashText(9, 2), OtherText}]

\* The rows of the sheet, by their phone number.
SheetRows == {<<"a">>, <<"b", "a", "b">>}

InitSheet ==
  /\ records \in UNION {[1..len -> SheetRecords] : len \in 0..MaxRecords}
  /\ NothingCalled
  /\ pc = "sheet"
  /\ now = 1
  /\ db = NoDoc
  /\ existing = NoDoc
  /\ prevDb = NoDoc
  /\ batch = <<>>
  /\ op = NoOp
  /\ prevOp = NoOp
  /\ runs = [r \in Runners |-> Idle]
  /\ collection = <<>>
  /\ loaded = NoLoad
  /\ NothingSaved

\* One call of update_practice_dates(records).
UpdatePracticeDates ==
  /\ pc = "sheet"
  /\ sheets.call = "none"
  /\ \E rows \in SheetRows : \E outcome \in SheetOutcomes :
       LET r == update_practice_dates(records, rows, outcome)
       IN  sheets' = [call |-> "update", rows |-> rows, outcome |-> outcome,
                      student_practices |-> r.student_practices,
                      updates |-> r.updates, written |-> r.written,
                      stats |-> r.stats]
  /\ UNCHANGED <<db, existing, batch, op, prevDb, prevOp, now, pc, runs>>
  /\ UNCHANGED loadVars
  /\ UNCHANGED saverVars
  /\ UNCHANGED <<migration, conn>>

NextSheet == UpdatePracticeDates

\* The practice dates of a batch written to the sheet.
SpecSheet == InitSheet /\ [][NextSheet]_vars

\* --------------------------------------------------------- MongoDBConnection
\* What _connect meets: "no_host" is an exception before the client is
\* assigned (get_mongo_host, build_mongo_uri or MongoClient raises),
\* "ping_fails" one after it, "ok" none.
ConnectOutcomes == {"ok", "no_host", "ping_fails"}

\* self._connect(): the attributes it leaves and whether it raised.
connect(c, outcome) ==
  CASE outcome = "no_host" ->
         [state |-> [c EXCEPT !.connects = @ + 1], raised |-> TRUE]
    [] outcome = "ping_fails" ->
         [state |-> [c EXCEPT !.connects = @ + 1, !.client = TRUE], raised |-> TRUE]
    [] OTHER ->
         [state |-> [c EXCEPT !.connects = @ + 1, !.client = TRUE,
                              !.students_db = TRUE, !.sales_db = TRUE,
                              !.logger_db = TRUE],
          raised |-> FALSE]

\* The database handles and their attributes.
Databases == {"students", "sales", "logger"}
Handle(c, which) ==
  CASE which = "students" -> c.students_db
    [] which = "sales" -> c.sales_db
    [] OTHER -> c.logger_db

\* close that leaves the database handles as they are.
close_keeps_handles(c) ==
  IF c.client THEN [c EXCEPT !.client = FALSE] ELSE c

\* close(): with a client, the client and the three handles become None.
close(c) ==
  IF c.client
  THEN [c EXCEPT !.client = FALSE, !.students_db = FALSE,
                 !.sales_db = FALSE, !.logger_db = FALSE]
  ELSE c

InitConn ==
  /\ conn = ClassLoaded
  /\ migration = NoMigration
  /\ sheets = NoSelection
  /\ pc = "conn"
  /\ now = 1
  /\ db = NoDoc
  /\ existing = NoDoc
  /\ prevDb = NoDoc
  /\ batch = <<>>
  /\ op = NoOp
  /\ prevOp = NoOp
  /\ runs = [r \in Runners |-> Idle]
  /\ collection = <<>>
  /\ records = <<>>
  /\ loaded = NoLoad
  /\ NothingSaved

\* What the calls on the connection leave alone.
ConnFrame ==
  /\ UNCHANGED <<db, existing, batch, op, prevDb, prevOp, now, pc, runs>>
  /\ UNCHANGED loadVars
  /\ UNCHANGED saverVars
  /\ UNCHANGED <<migration, sheets>>

\* MongoDBConnection() or get_mongo_connection(): __new__ makes the
\* instance when the class has none, __init__ connects when the client is
\* None; the caller has the instance unless __init__ raised.
Construct ==
  /\ pc = "conn"
  /\ conn.calls < MaxCalls
  /\ \E outcome \in ConnectOutcomes :
       LET made == [conn EXCEPT !.instances = IF @ = 0 THEN 1 ELSE @]
           connected == ~made.client
           r == IF connected THEN connect(made, outcome)
                ELSE [state |-> made, raised |-> FALSE]
       IN  conn' = [r.state EXCEPT
                      !.held = @ \/ ~r.raised,
                      !.closed = FALSE,
                      !.calls = @ + 1,
                      !.last = [call |-> "construct", which |-> "none", connected |-> connected,
                                client_before |-> conn.client,
                                handle_before |-> FALSE,
                                closed_before |-> conn.closed,
                                raised |-> r.raised,
                                returned |-> ~r.raised]]
  /\ ConnFrame

\* get_students_database(), get_sales_database() or get_logger_database()
\* on the instance: it connects when the handle is None and returns the
\* handle.
GetDatabase(which) ==
  /\ pc = "conn"
  /\ conn.held
  /\ conn.calls < MaxCalls
  /\ \E outcome \in ConnectOutcomes :
       LET connected == ~Handle(conn, which)
           r == IF connected THEN connect(conn, outcome)
                ELSE [state |-> conn, raised |-> FALSE]
       IN  conn' = [r.state EXCEPT
                      !.closed = FALSE,
                      !.calls = @ + 1,
                      !.last = [call |-> "get_database", which |-> which, connected |-> connected,
                                client_before |-> conn.client,
                                handle_before |-> Handle(conn, which),
                                closed_before |-> conn.closed,
                                raised |-> r.raised,
                                returned |-> ~r.raised /\ Handle(r.state, which)]]
  /\ ConnFrame

\* close() on the instance.
Close ==
  /\ pc = "conn"
  /\ conn.held
  /\ conn.calls < MaxCalls
  /\ conn' = [close(conn) EXCEPT
                !.closed = TRUE,
                !.calls = @ + 1,
                !.last = [call |-> "close", which |-> "none", connected |-> FALSE,
                          client_before |-> conn.client,
                          handle_before |-> FALSE,
                          closed_before |-> conn.closed,
                          raised |-> FALSE, returned |-> FALSE]]
  /\ ConnFrame

\* test_connection() on the instance: the ping of a client answers or
\* raises, the attribute access on None raises; every exception is caught
\* and gives False.
TestConnection ==
  /\ pc = "conn"
  /\ conn.held
  /\ conn.calls < MaxCalls
  /\ \E ping_answers \in BOOLEAN :
       conn' = [conn EXCEPT
                  !.calls = @ + 1,
                  !.last = [call |-> "test_connection", which |-> "none", connected |-> FALSE,
                            client_before |-> conn.client,
                            handle_before |-> FALSE,
                            closed_before |-> conn.closed,
                            raised |-> FALSE,
                            returned |-> conn.client /\ ping_answers]]
  /\ ConnFrame

NextConn ==
  \/ Construct
  \/ \E which \in Databases : GetDatabase(which)
  \/ Close
  \/ TestConnection

\* Calls on MongoDBConnection one after another, at most MaxCalls.
SpecConn == InitConn /\ [][NextConn]_vars

\* ------------------------------------------------------ reading a merge
\* The datetime of an event.
EventTime(msg) == parse_timestamp(msg.current_timestamp).dt

\* The existing document's marks as datetimes (None when there is none).
ExistingLastMessage ==
  IF existing.exists /\ existing.last_message_timedate.k = "str"
  THEN DtV(existing.last_message_timedate.v * SecondsPerMinute) ELSE NoneV
ExistingLastPractice ==
  IF existing.exists /\ existing.last_practice_timedate.k = "str"
  THEN DtV(existing.last_practice_timedate.v * SecondsPerMinute) ELSE NoneV

\* The positions of the batch whose iteration began (no exception before).
Steps == {i \in 1..Len(batch) : Len(op.trace) > i /\ ~op.trace[i].raised}
Before(i) == op.trace[i]
After(i) == op.trace[i + 1]

\* ts is at or below a mark that is there.
AtOrBelow(ts, mark) == mark.k = "dt" /\ ts <= mark.v

\* Event i is stopped by the student-level check of its kind.
StudentLevelReject(i) ==
  IF batch[i].message_type = "message"
  THEN \/ AtOrBelow(EventTime(batch[i]), ExistingLastMessage)
       \/ AtOrBelow(EventTime(batch[i]), Before(i).last_message_timedate)
  ELSE \/ AtOrBelow(EventTime(batch[i]), ExistingLastPractice)
       \/ AtOrBelow(EventTime(batch[i]), Before(i).last_practice_timedate)

\* The stored documents agree on the lessons and on both marks.
SameRecord(a, b) ==
  /\ a.exists = b.exists
  /\ a.lessons = b.lessons
  /\ a.last_message_timedate = b.last_message_timedate
  /\ a.last_practice_timedate = b.last_practice_timedate

\* The entry of a label in a stored lessons list.
HasLesson(lessons, label) == \E i \in 1..Len(lessons) : lessons[i].lesson = label
LessonOf(lessons, label) ==
  lessons[CHOOSE i \in 1..Len(lessons) : lessons[i].lesson = label]

\* ------------------------------------------------------------------ C1
\* C1: merging the same batch a second time, into the record the first
\* merge left, leaves the lessons (every count, first_practice,
\* last_practice, teacher, paid) and both marks as the first merge left
\* them.
C1_Idempotent == pc = "remerged" => SameRecord(db, prevDb)

\* ------------------------------------------------------------------ C3
\* C3: a reordering of the batch, merged into the same existing record,
\* gives the same lessons and the same two marks as the original order
\* (stated for the merges that complete: those that raise persist nothing).
C3_OrderIndependent ==
  (pc = "reordered" /\ ~op.raised /\ ~prevOp.raised) => SameRecord(db, prevDb)

\* ------------------------------------------------------------------ C4
\* The batch is two practice events for one lesson, the later one first,
\* both after the lesson's last_practice T0 and after the student mark.
LaterFirst ==
  /\ Len(batch) = 2
  /\ batch[1].message_type = "practice" /\ batch[2].message_type = "practice"
  /\ batch[1].lesson = batch[2].lesson
  /\ EventTime(batch[2]) < EventTime(batch[1])
  /\ existing.exists /\ HasLesson(existing.lessons, batch[1].lesson)
  /\ LET old == LessonOf(existing.lessons, batch[1].lesson)
     IN  /\ old.last_practice.k = "str" /\ old.practice_count.k = "int"
         /\ old.last_practice.v * SecondsPerMinute < EventTime(batch[2])
  /\ ~AtOrBelow(EventTime(batch[2]), ExistingLastPractice)

\* C4: events are taken in ascending timestamp order, so of two practice
\* events for a lesson listed later-first (T0 < T1 < T2) both are accepted:
\* practice_count rises by 2 and last_practice ends at T2.
C4_SortedBeforeMerge ==
  (pc = "merged" /\ LaterFirst) =>
    /\ ~op.raised
    /\ LET old == LessonOf(existing.lessons, batch[1].lesson)
           new == LessonOf(db.lessons, batch[1].lesson)
       IN  /\ new.practice_count = IntV(old.practice_count.v + 2)
           /\ new.last_practice = format_timestamp(EventTime(batch[1]))

\* ------------------------------------------------------------------ C5
\* Event i is a practice event that passed the student-level check and
\* whose lesson is in the ledger with an absent last_practice (None, or no
\* such key).
PracticeOnAbsentLast(i) ==
  /\ batch[i].message_type = "practice"
  /\ ~StudentLevelReject(i)
  /\ DictHas(Before(i).lessons_dict, batch[i].lesson)
  /\ DictGet(Before(i).lessons_dict, batch[i].lesson).last_practice.k
       \in {"none", "absent"}

\* C5: such an event is accepted without error: practice_count is
\* incremented and first_practice and last_practice become its timestamp.
C5_AbsentLastPracticeAccepted ==
  pc = "merged" =>
    \A i \in Steps :
      PracticeOnAbsentLast(i) =>
        /\ ~After(i).raised
        /\ LET old == DictGet(Before(i).lessons_dict, batch[i].lesson)
               new == DictGet(After(i).lessons_dict, batch[i].lesson)
           IN  /\ new.practice_count = CountPlusOne(old.practice_count)
               /\ new.first_practice = DtV(EventTime(batch[i]))
               /\ new.last_practice = DtV(EventTime(batch[i]))

\* ------------------------------------------------------------------ C6
\* The ledger after an accepted message event: message_count of its lesson
\* is one more, or the lesson is new at the end with message_count 1,
\* practice_count 0, paid false; every other entry is as before.
MessageAccepted(i) ==
  LET msg == batch[i]
      old == Before(i).lessons_dict
      new == After(i).lessons_dict
  IN  /\ ~After(i).raised
      /\ After(i).last_message_timedate = DtV(EventTime(msg))
      /\ After(i).last_practice_timedate = Before(i).last_practice_timedate
      /\ IF DictHas(old, msg.lesson)
         THEN /\ Len(new) = Len(old)
              /\ \A j \in 1..Len(old) :
                   new[j] = IF old[j].lesson = msg.lesson
                            THEN [old[j] EXCEPT !.message_count = IntV(@.v + 1)]
                            ELSE old[j]
         ELSE /\ Len(new) = Len(old) + 1
              /\ \A j \in 1..Len(old) : new[j] = old[j]
              /\ new[Len(new)].lesson = msg.lesson
              /\ new[Len(new)].message_count = IntV(1)
              /\ new[Len(new)].practice_count = IntV(0)
              /\ new[Len(new)].paid = BoolV(FALSE)

PracticeOnPresentLast(i) ==
  /\ batch[i].message_type = "practice"
  /\ DictHas(Before(i).lessons_dict, batch[i].lesson)
  /\ DictGet(Before(i).lessons_dict, batch[i].lesson).last_practice.k = "dt"

\* Event i is a practice event whose lesson is not in the ledger.
PracticeOnNewLesson(i) ==
  /\ batch[i].message_type = "practice"
  /\ ~DictHas(Before(i).lessons_dict, batch[i].lesson)

\* The first sentence of C7, for event i.
PracticeGate(i) ==
  LET msg == batch[i]
      ts == EventTime(msg)
      old == DictGet(Before(i).lessons_dict, msg.lesson)
      new == DictGet(After(i).lessons_dict, msg.lesson)
  IN  IF ~StudentLevelReject(i) /\ ts > old.last_practice.v
      THEN /\ ~After(i).raised
           /\ new = [old EXCEPT
                       !.practice_count = CountPlusOne(@),
                       !.teacher = msg.teacher,
                       !.last_practice = DtV(ts),
                       !.first_practice =
                          IF @.k \in {"absent", "none"} THEN DtV(ts) ELSE @]
           /\ \A j \in 1..Len(Before(i).lessons_dict) :
                Before(i).lessons_dict[j].lesson # msg.lesson =>
                  After(i).lessons_dict[j] = Before(i).lessons_dict[j]
           /\ After(i).last_practice_timedate = DtV(ts)
      ELSE After(i) = Before(i)

\* The lesson of event i is in the ledger after it as a practice creates it.
CreatedByPractice(i) ==
  /\ ~After(i).raised
  /\ Len(After(i).lessons_dict) = Len(Before(i).lessons_dict) + 1
  /\ After(i).lessons_dict[Len(After(i).lessons_dict)] =
       [lesson |-> batch[i].lesson, teacher |-> batch[i].teacher,
        practice_count |-> IntV(1), message_count |-> IntV(0),
        first_practice |-> DtV(EventTime(batch[i])),
        last_practice |-> DtV(EventTime(batch[i])), paid |-> BoolV(FALSE)]

LessonLevelReject(i) ==
  /\ PracticeOnPresentLast(i)
  /\ ~StudentLevelReject(i)
  /\ EventTime(batch[i]) <=
       DictGet(Before(i).lessons_dict, batch[i].lesson).last_practice.v

\* C8: a practice event rejected at the lesson level after passing the
\* student-level check raises no mark and changes no lesson, so the later
\* events of the batch meet the mark as it was.
C8_LessonRejectKeepsMark ==
  pc = "merged" =>
    \A i \in Steps : LessonLevelReject(i) => After(i) = Before(i)

\* A lesson-level rejection followed by a practice event at or below the
\* rejected timestamp that is accepted: it met the mark as it was.
C8_Witness ==
  /\ pc = "merged"
  /\ \E i, j \in Steps :
       /\ i < j
       /\ LessonLevelReject(i)
       /\ batch[j].message_type = "practice"
       /\ EventTime(batch[j]) <= EventTime(batch[i])
       /\ After(j) # Before(j)

\* ------------------------------------------------------------------ C9
\* An event of the kind was accepted in this batch.
AcceptedOfKind(kind) ==
  \E i \in Steps : batch[i].message_type = kind /\ After(i) # Before(i)

\* C9: the update has last_message_timedate (last_practice_timedate) only
\* when an event of that kind was accepted in this batch, the value written
\* is not earlier than the existing mark, and an existing mark is not
\* overwritten by an absent value; created_at is in the update iff no
\* existing record was found; updated_at is always in it.
C9_UpdateFields ==
  (pc = "merged" /\ ~op.raised) =>
    /\ op.set_last_message => AcceptedOfKind("message")
    /\ op.set_last_practice => AcceptedOfKind("practice")
    /\ op.set_last_message =>
         /\ op.last_message_timedate.k = "str"
         /\ db.last_message_timedate = op.last_message_timedate
         /\ existing.last_message_timedate.k = "str" =>
              op.last_message_timedate.v >= existing.last_message_timedate.v
    /\ op.set_last_practice =>
         /\ op.last_practice_timedate.k = "str"
         /\ db.last_practice_timedate = op.last_practice_timedate
         /\ existing.last_practice_timedate.k = "str" =>
              op.last_practice_timedate.v >= existing.last_practice_timedate.v
    /\ ~op.set_last_message => db.last_message_timedate = existing.last_message_timedate
    /\ ~op.set_last_practice => db.last_practice_timedate = existing.last_practice_timedate
    /\ op.set_created_at <=> ~existing.exists
    /\ op.set_updated_at

\* An update of an existing record that writes a later practice mark and
\* leaves the message mark, which exists, out.
C9_Witness ==
  /\ pc = "merged" /\ ~op.raised
  /\ existing.exists
  /\ existing.last_message_timedate.k = "str"
  /\ existing.last_practice_timedate.k = "str"
  /\ ~op.set_last_message
  /\ op.set_last_practice
  /\ op.last_practice_timedate.v > existing.last_practice_timedate.v
  /\ db.last_message_timedate = existing.last_message_timedate

\* ------------------------------------------------------------------ C2
\* A stored mark b is not earlier than the stored mark a.
NotEarlier(a, b) == a.k = "str" => (b.k = "str" /\ b.v >= a.v)

\* No mark of document a is later than in document b.
NoMarkDecreased(a, b) ==
  /\ NotEarlier(a.last_message_timedate, b.last_message_timedate)
  /\ NotEarlier(a.last_practice_timedate, b.last_practice_timedate)
  /\ \A i \in 1..Len(a.lessons) :
       a.lessons[i].last_practice.k = "str" =>
         /\ HasLesson(b.lessons, a.lessons[i].lesson)
         /\ NotEarlier(a.lessons[i].last_practice,
                       LessonOf(b.lessons, a.lessons[i].lesson).last_practice)

\* C2: over merges applied one after another to one student, the stored
\* last_practice_timedate, last_message_timedate and every lesson's
\* last_practice never decrease from one stored state to the next.
C2_Monotone == pc = "serial" => NoMarkDecreased(prevDb, db)

\* Starting from no record, a second merge that moves the student's
\* practice mark and a lesson's last_practice forward from the values the
\* first merge wrote.
C2_Witness ==
  /\ pc = "serial"
  /\ now > 2
  /\ ~existing.exists
  /\ prevDb.last_practice_timedate.k = "str"
  /\ db.last_practice_timedate.k = "str"
  /\ db.last_practice_timedate.v > prevDb.last_practice_timedate.v
  /\ \E i \in 1..Len(prevDb.lessons) :
       /\ prevDb.lessons[i].last_practice.k = "str"
       /\ LessonOf(db.lessons, prevDb.lessons[i].lesson).last_practice.v
            > prevDb.lessons[i].last_practice.v

\* ----------------------------------------------------------------- C10
\* Both runs read the same document, both wrote, neither merge raised.
BothWroteFromOneRead ==
  /\ pc = "conc"
  /\ \A r \in Runners : runs[r].pc = "done" /\ ~runs[r].op.raised
  /\ runs[1].snap = runs[2].snap

LaterWriter == CHOOSE r \in Runners : \A q \in Runners : runs[q].wrote_at <= runs[r].wrote_at
EarlierWriter == CHOOSE r \in Runners : r # LaterWriter

\* The stored mark after an operation that may carry it.
MarkAfter(isSet, value, before) == IF isSet THEN value ELSE before

\* C10: when two runs read the same record before either writes, the later
\* write replaces the whole lessons array by the one computed from the
\* stale read, and each mark by the later writer's whenever it has one:
\* nothing the earlier writer counted is in the lessons, and its mark stays
\* only where the later writer wrote none.
C10_LaterWriteReplaces ==
  BothWroteFromOneRead =>
    LET late == runs[LaterWriter].op
        early == runs[EarlierWriter].op
        snap == runs[LaterWriter].snap
    IN  /\ db.lessons =
             process_student_messages(snap, runs[LaterWriter].msgs).lessons
        /\ db.last_practice_timedate =
             MarkAfter(late.set_last_practice, late.last_practice_timedate,
               MarkAfter(early.set_last_practice, early.last_practice_timedate,
                         snap.last_practice_timedate))
        /\ db.last_message_timedate =
             MarkAfter(late.set_last_message, late.last_message_timedate,
               MarkAfter(early.set_last_message, early.last_message_timedate,
                         snap.last_message_timedate))

\* The two groups merged one after the other, first a then b.
SerialResult(snap, a, b) ==
  LET first == update_one(snap, process_student_messages(snap, a), 0)
  IN  update_one(first, process_student_messages(first, b), 0)

\* The count of a lesson in a stored document, 0 if it has no such lesson.
CountOf(doc, label, field) ==
  IF HasLesson(doc.lessons, label)
  THEN (IF field = "practice" THEN LessonOf(doc.lessons, label).practice_count.v
        ELSE LessonOf(doc.lessons, label).message_count.v)
  ELSE 0

\* A lost update: a lesson's practice_count ends below what either serial
\* order gives, a lesson's message_count likewise, and the practice mark
\* the first write stored is replaced by an earlier one.
C10_Witness ==
  /\ BothWroteFromOneRead
  /\ LET snap == runs[1].snap
         s12 == SerialResult(snap, runs[1].msgs, runs[2].msgs)
         s21 == SerialResult(snap, runs[2].msgs, runs[1].msgs)
     IN  \E label \in LessonLabels :
           /\ CountOf(db, label, "practice") < CountOf(s12, label, "practice")
           /\ CountOf(db, label, "practice") < CountOf(s21, label, "practice")
  /\ prevDb.last_practice_timedate.k = "str"
  /\ db.last_practice_timedate.k = "str"
  /\ db.last_practice_timedate.v < prevDb.last_practice_timedate.v

\* ------------------------------------------------- reading a call of load
\* The groups of the records handed to load.
Groups == aggregate_student_updates(records)

\* The iterations of the loop that ended in the except clause.
Failing == {g \in 1..Len(loaded.results) : loaded.results[g].raised}

\* The records without those of the groups that failed.
WithoutFailing ==
  SelectSeq(records,
            LAMBDA r : \A g \in Failing : loaded.results[g].phone_number # r.phone_number)

\* Two collections hold the same students with the same statistics (the
\* clock readings created_at and updated_at apart).
SameStudents(a, b) ==
  /\ Len(a) = Len(b)
  /\ \A i \in 1..Len(a) :
       /\ a[i].uniq_id = b[i].uniq_id
       /\ a[i].phone_number = b[i].phone_number
       /\ a[i].name = b[i].name
       /\ a[i].doc.current_lesson = b[i].doc.current_lesson
       /\ SameRecord(a[i].doc, b[i].doc)

\* The events of the kind that the merge of an iteration accepted.
AcceptedIn(result, kind) ==
  Cardinality({i \in 1..Len(result.student_messages) :
                 /\ result.student_messages[i].message_type = kind
                 /\ Len(result.trace) > i
                 /\ result.trace[i + 1] # result.trace[i]})

RECURSIVE SumAccepted(_, _)
\* The accepted events of the kind over the iterations that persisted.
SumAccepted(results, kind) ==
  IF results = <<>> THEN 0
  ELSE (IF Head(results).raised THEN 0 ELSE AcceptedIn(Head(results), kind))
       + SumAccepted(Tail(results), kind)

\* ----------------------------------------------------------------- C11
\* C11: an exception raised while processing or persisting one student's
\* group is caught, adds exactly 1 to stats['errors'] and does not stop the
\* loop: every group has its iteration, and the collection and the other
\* statistics are what load gives on the same records without those of the
\* failing groups.
C11_GroupIsolation ==
  pc = "loaded" =>
    LET ref == load(loaded.before, WithoutFailing, 0, 1)
    IN  /\ Len(loaded.results) = Len(Groups)
        /\ loaded.stats.errors = Cardinality(Failing)
        /\ ref.stats.errors = 0
        /\ [loaded.stats EXCEPT !.errors = 0] = ref.stats
        /\ SameStudents(collection, ref.collection)

\* The first group fails in its merge, the second is persisted as a new
\* student and counted.
C11_Witness ==
  /\ pc = "loaded"
  /\ loaded.fault = 0
  /\ Len(loaded.results) = 2
  /\ loaded.results[1].raised
  /\ ~loaded.results[2].raised
  /\ loaded.stats.errors = 1
  /\ loaded.stats.students_processed = 1
  /\ Len(collection) = Len(loaded.before) + 1

\* ----------------------------------------------------------------- C12
\* C12: an event whose timestamp text cannot be parsed aborts only that
\* event: the merge of its group does not fail and the student's record is
\* upserted.
C12_BadTimestampSkipsEvent ==
  pc = "loaded" =>
    \A g \in 1..Len(loaded.results) :
      LET result == loaded.results[g]
      IN  (/\ loaded.fault # g
           /\ \E i \in 1..Len(result.student_messages) :
                ~parse_timestamp(result.student_messages[i].current_timestamp).ok)
          => /\ ~result.raised
             /\ Matching(collection, result.uniq_id) # {}

\* ----------------------------------------------------------------- C13
\* C13: messages_loaded and practices_loaded are the numbers of message and
\* practice events that the merges accepted, not the numbers in the input.
C13_AcceptedCounts ==
  pc = "loaded" =>
    /\ loaded.stats.messages_loaded = SumAccepted(loaded.results, "message")
    /\ loaded.stats.practices_loaded = SumAccepted(loaded.results, "practice")

\* ----------------------------------------------------------------- C14
\* C14: the records are grouped by (phone_number, name): there is one group
\* per pair, and every record of a group has the name of the record that
\* the group's events are counted into.
C14_GroupedByPhoneAndName ==
  pc = "loaded" =>
    /\ Len(loaded.results) =
         Cardinality({<<records[i].phone_number, records[i].name>> :
                        i \in 1..Len(records)})
    /\ \A g \in 1..Len(loaded.results) :
         \A i \in 1..Len(loaded.results[g].student_messages) :
           generate_uniq_id(loaded.results[g].student_messages[i].phone_number,
                            loaded.results[g].student_messages[i].name)
             = loaded.results[g].uniq_id

\* ----------------------------------------------------------------- C15
\* C15: two records that differ in phone_number or in name get different
\* identifiers: the digested texts differ.
C15_DistinctIdentifiers ==
  pc = "loaded" =>
    \A i, j \in 1..Len(records) :
      (\/ records[i].phone_number # records[j].phone_number
       \/ records[i].name # records[j].name)
      => generate_uniq_id(records[i].phone_number, records[i].name)
           # generate_uniq_id(records[j].phone_number, records[j].name)

\* ----------------------------------------------------------------- C16
\* C16: over calls of load one after another, no stored record's uniq_id
\* changes and the number of stored records never decreases.
C16_IdentifierStable ==
  [][/\ Len(collection') >= Len(collection)
     /\ \A i \in 1..Len(collection) :
          collection'[i].uniq_id = collection[i].uniq_id]_vars

\* After two calls: a record that was there from the start has been
\* updated, and a record has been created beside it.
C16_Witness ==
  /\ pc = "loads"
  /\ loaded.loads = 2
  /\ Len(collection) = 2
  /\ collection[1].doc.updated_at.v > collection[1].doc.created_at.v
  /\ collection[2].doc.created_at.v > 0

\* ----------------------------------------------------------------- C17
\* The merge ended without an exception and rejected every event.
AllRejected ==
  /\ pc = "merged"
  /\ ~op.raised
  /\ \A i \in 1..Len(batch) : After(i) = Before(i)

\* A stored entry with the defaults of the fields the older schema lacks.
WithDefaults(lesson) ==
  [lesson EXCEPT !.message_count = IF @.k = "absent" THEN IntV(0) ELSE @,
                 !.paid = IF @.k = "absent" THEN BoolV(FALSE) ELSE @]

C18_LoadedCountsNonNegative ==
  (pc = "merged" /\ Len(op.trace) >= 1) =>
    \A j \in 1..Len(op.trace[1].lessons_dict) :
      LET lesson_copy == op.trace[1].lessons_dict[j]
      IN  /\ lesson_copy.practice_count.k = "int"
          /\ lesson_copy.practice_count.v >= 0
          /\ lesson_copy.message_count.k = "int"
          /\ lesson_copy.message_count.v >= 0
          /\ lesson_copy.paid.k = "bool"

\* ----------------------------------------------------------------- C19
\* Entry j of the stored lessons is of the older schema: a labelled dict
\* without paid and without message_count.
HistoricalEntry(j) ==
  /\ IsDict(existing.lessons[j])
  /\ HasLessonKey(existing.lessons[j])
  /\ existing.lessons[j].paid.k = "absent"
  /\ existing.lessons[j].message_count.k = "absent"

\* No event of the batch is for the lesson of stored entry j.
Untouched(j) == \A i \in 1..Len(batch) : batch[i].lesson # existing.lessons[j].lesson

WellFormed(lessons) ==
  SelectSeq(lessons, LAMBDA lesson : IsDict(lesson) /\ HasLessonKey(lesson))

\* C20: a stored entry that is not a dict, or has no 'lesson' key, is
\* dropped by the load and nothing else is: the loop starts from the other
\* entries, and the merge does what it does on the document without the
\* dropped entries (every event handled, the same update produced).
C20_CorruptEntryDropped ==
  pc = "merged" =>
    /\ Len(op.trace) = Len(batch) + 1
    /\ Len(op.trace[1].lessons_dict) = Len(WellFormed(existing.lessons))
    /\ \A j \in 1..Len(WellFormed(existing.lessons)) :
         DictHas(op.trace[1].lessons_dict, WellFormed(existing.lessons)[j].lesson)
    /\ op = process_student_messages(
              [existing EXCEPT !.lessons = WellFormed(@)], batch)

\* A document with an entry that is not a dict before and an entry without
\* label after a lesson; a practice event is counted into that lesson and
\* the update is written.
C20_Witness ==
  /\ pc = "merged"
  /\ ~op.raised
  /\ Len(existing.lessons) = 3
  /\ ~IsDict(existing.lessons[1])
  /\ ~HasLessonKey(existing.lessons[3])
  /\ \E i \in 1..Len(batch) :
       /\ batch[i].message_type = "practice"
       /\ batch[i].lesson = existing.lessons[2].lesson
       /\ After(i) # Before(i)
  /\ LessonOf(db.lessons, existing.lessons[2].lesson).practice_count
       = IntV(existing.lessons[2].practice_count.v + 1)

\* ----------------------------------------------------------------- C21
\* Event i is a practice event that passes the student-level check, for a
\* lesson whose loaded last_practice is a text parse_timestamp could not read.
PracticeOnUnparsedLast(i) ==
  /\ batch[i].message_type = "practice"
  /\ ~StudentLevelReject(i)
  /\ DictHas(Before(i).lessons_dict, batch[i].lesson)
  /\ DictGet(Before(i).lessons_dict, batch[i].lesson).last_practice.k = "bad"

\* C21: a stored last_practice that cannot be parsed is treated as absent
\* and does not abort the merge: a practice event for that lesson that
\* passes the student-level check is accepted (practice_count one more,
\* last_practice its timestamp) and the loop goes on.
C21_UnparsedLastPracticeAccepted ==
  pc = "merged" =>
    \A i \in Steps :
      PracticeOnUnparsedLast(i) =>
        /\ ~After(i).raised
        /\ DictGet(After(i).lessons_dict, batch[i].lesson).practice_count =
             CountPlusOne(DictGet(Before(i).lessons_dict, batch[i].lesson).practice_count)
        /\ DictGet(After(i).lessons_dict, batch[i].lesson).last_practice =
             DtV(EventTime(batch[i]))

\* ----------------------------------------------------------------- C22
\* The entry of the current lesson had to be inserted: the stored record
\* has none and no event for that lesson was accepted.
CurrentLessonInserted ==
  /\ ~HasLesson(existing.lessons, batch[1].lesson)
  /\ \A i \in Steps : batch[i].lesson = batch[1].lesson => After(i) = Before(i)

\* C22: after a merge that completes, the written lessons hold an entry
\* for the written current_lesson (the first event's lesson); an entry that
\* had to be inserted has practice_count 0, message_count 0, paid false and
\* neither first_practice nor last_practice.
C22_CurrentLessonEnsured ==
  (pc = "merged" /\ ~op.raised) =>
    /\ db.current_lesson = batch[1].lesson
    /\ HasLesson(db.lessons, db.current_lesson)
    /\ CurrentLessonInserted =>
         LessonOf(db.lessons, db.current_lesson) =
           [lesson |-> batch[1].lesson, teacher |-> batch[1].teacher,
            practice_count |-> IntV(0), message_count |-> IntV(0),
            first_practice |-> NoneV, last_practice |-> NoneV,
            paid |-> BoolV(FALSE)]

\* A stale first event for a lesson the record does not have, then an event
\* accepted into another lesson: the entry of the first is inserted.
C22_Witness ==
  /\ pc = "merged"
  /\ ~op.raised
  /\ existing.exists
  /\ CurrentLessonInserted
  /\ Len(batch) = 2
  /\ After(2) # Before(2)
  /\ Len(db.lessons) = Len(existing.lessons) + 1

\* ----------------------------------------------------------------- C23
\* The label has a digit; the integer of all its digits.
HasDigits(label) == \E i \in 1..Len(label) : IsDigit(label[i])
NumberOf(label) == DigitsToInt(label, 0)

\* The lessons in their order before the sort: the dict the loop left, and
\* after it the entry of the current lesson when it had to be added.
OriginalOrder ==
  LET final == op.trace[Len(op.trace)].lessons_dict
  IN  IF DictHas(final, batch[1].lesson) THEN final
      ELSE Append(final, [lesson |-> batch[1].lesson])

\* C23: the written lessons are in ascending order of the integer of the
\* digits of the label; a label without digits comes after every label
\* with digits, whatever the number; labels of equal key keep the order
\* they had before the sort.
C23_SortedByNumber ==
  (pc = "merged" /\ ~op.raised) =>
    \A i, j \in 1..Len(db.lessons) :
      i < j =>
        LET a == db.lessons[i].lesson
            b == db.lessons[j].lesson
        IN  /\ (HasDigits(a) /\ HasDigits(b)) => NumberOf(a) <= NumberOf(b)
            /\ ~(~HasDigits(a) /\ HasDigits(b))
            /\ (\/ (~HasDigits(a) /\ ~HasDigits(b))
                \/ (HasDigits(a) /\ HasDigits(b) /\ NumberOf(a) = NumberOf(b)))
                 => DictIndex(OriginalOrder, a) < DictIndex(OriginalOrder, b)

\* ----------------------------------------------------------------- C24
\* The timestamps of the events of a kind accepted so far; the latest.
AcceptedTimes(kind) ==
  {accepted[i].ts : i \in {j \in 1..Len(accepted) : accepted[j].message_type = kind}}
Latest(times) == CHOOSE t \in times : \A u \in times : u <= t

\* The mark the record holds after these events: none when there is no
\* event, else the latest of them as the stored text.
MarkOf(times) == IF times = {} THEN Absent ELSE format_timestamp(Latest(times))

\* The stored last_practice values of the lessons.
LessonLastPractices ==
  {db.lessons[j].last_practice.v :
     j \in {l \in 1..Len(db.lessons) : db.lessons[l].last_practice.k = "str"}}

\* C24: from no record, after any number of merges one after another,
\* last_practice_timedate is the latest timestamp of the practice events
\* accepted so far and last_message_timedate the latest of the accepted
\* message events, each absent exactly when no event of its kind was
\* accepted; last_practice_timedate is also the latest last_practice of the
\* lessons. The record holds a timestamp as its 'HH:MM, DD.MM.YYYY' text.
C24_MarksAreLatestAccepted ==
  pc = "history" =>
    /\ db.last_practice_timedate = MarkOf(AcceptedTimes("practice"))
    /\ db.last_message_timedate = MarkOf(AcceptedTimes("message"))
    /\ AcceptedTimes("practice") # {} =>
         /\ LessonLastPractices # {}
         /\ db.last_practice_timedate = StrV(Latest(LessonLastPractices))
    /\ AcceptedTimes("practice") = {} => LessonLastPractices = {}

\* Two merges: a practice event accepted, then a message event accepted;
\* the practice mark is still there and the message mark is set.
C24_Witness ==
  /\ pc = "history"
  /\ Len(accepted) = 2
  /\ accepted[1].message_type = "practice"
  /\ accepted[2].message_type = "message"
  /\ accepted[1].ts > accepted[2].ts
  /\ db.last_practice_timedate = format_timestamp(accepted[1].ts)
  /\ db.last_message_timedate = format_timestamp(accepted[2].ts)

\* ----------------------------------------------------------------- C25
\* The accepted practice events of a lesson, in order.
AcceptedPractices(label) ==
  SelectSeq(accepted, LAMBDA e : e.message_type = "practice" /\ e.lesson = label)

\* C25: the first_practice of a lesson is set by the first practice event
\* accepted for the lesson and is that event's timestamp in every later
\* state, so no later merge changes it; a lesson with no accepted practice
\* event has none; when first_practice and last_practice are both there,
\* first_practice <= last_practice.
C25_FirstPracticeSetOnce ==
  pc = "history" =>
    \A j \in 1..Len(db.lessons) :
      LET lesson == db.lessons[j]
          practices == AcceptedPractices(lesson.lesson)
      IN  /\ practices = <<>> => ~Truthy(lesson.first_practice)
          /\ practices # <<>> =>
               lesson.first_practice = format_timestamp(practices[1].ts)
          /\ (lesson.first_practice.k = "str" /\ lesson.last_practice.k = "str") =>
               lesson.first_practice.v <= lesson.last_practice.v

\* Two merges each with a practice event accepted for one lesson, a minute
\* apart: first_practice is the first one's, last_practice the second's.
C25_Witness ==
  /\ pc = "history"
  /\ Len(accepted) = 2
  /\ accepted[1].message_type = "practice"
  /\ accepted[2].message_type = "practice"
  /\ accepted[1].lesson = accepted[2].lesson
  /\ HasLesson(db.lessons, accepted[1].lesson)
  /\ LessonOf(db.lessons, accepted[1].lesson).first_practice =
       format_timestamp(accepted[1].ts)
  /\ LessonOf(db.lessons, accepted[1].lesson).last_practice =
       format_timestamp(accepted[2].ts)
  /\ LessonOf(db.lessons, accepted[1].lesson).first_practice #
       LessonOf(db.lessons, accepted[1].lesson).last_practice

\* ----------------------------------------------------------------- C26
\* parse_timestamp reads the text format_timestamp made of the instant x
\* (in seconds) and gives an instant less than one second from x.
RoundTrips(x) ==
  LET back == ParseStored(format_timestamp(x))
  IN  /\ back.ok
      /\ back.val.k = "dt"
      /\ back.val.v - x < 1
      /\ x - back.val.v < 1

\* C26: the codec reads its own output and round-trips: for the instant of
\* every event of the batch, and for each mark the merge formatted and
\* wrote, parsing the formatted text gives the instant to within a second.
C26_CodecRoundTrip ==
  (pc = "merged" /\ ~op.raised) =>
    LET final == op.trace[Len(op.trace)]
    IN  /\ \A i \in 1..Len(batch) : RoundTrips(EventTime(batch[i]))
        /\ op.set_last_message =>
             /\ db.last_message_timedate = format_timestamp(final.last_message_timedate.v)
             /\ RoundTrips(final.last_message_timedate.v)
        /\ op.set_last_practice =>
             /\ db.last_practice_timedate = format_timestamp(final.last_practice_timedate.v)
             /\ RoundTrips(final.last_practice_timedate.v)

\* ----------------------------------------------------------------- C27
\* No record, and the batch is [practice for L at t1, message for L at t2]
\* with t1 < t2.
PracticeThenMessage ==
  /\ ~existing.exists
  /\ Len(batch) = 2
  /\ batch[1].message_type = "practice"
  /\ batch[2].message_type = "message"
  /\ batch[1].lesson = batch[2].lesson
  /\ parse_timestamp(batch[1].current_timestamp).ok
  /\ parse_timestamp(batch[2].current_timestamp).ok
  /\ EventTime(batch[1]) < EventTime(batch[2])

\* C27: that merge makes a new record (is_new, created_at set) with exactly
\* one lesson entry, for L, with practice_count 1, message_count 1 and
\* first_practice = last_practice = t1, and with last_practice_timedate = t1
\* and last_message_timedate = t2 (each as its stored text).
C27_PracticeThenMessage ==
  (pc = "merged" /\ PracticeThenMessage) =>
    /\ ~op.raised
    /\ op.is_new
    /\ op.set_created_at
    /\ db.exists
    /\ db.created_at = IntV(now - 1)
    /\ Len(db.lessons) = 1
    /\ db.lessons[1].lesson = batch[1].lesson
    /\ db.lessons[1].practice_count = IntV(1)
    /\ db.lessons[1].message_count = IntV(1)
    /\ db.lessons[1].first_practice = format_timestamp(EventTime(batch[1]))
    /\ db.lessons[1].last_practice = format_timestamp(EventTime(batch[1]))
    /\ db.last_practice_timedate = format_timestamp(EventTime(batch[1]))
    /\ db.last_message_timedate = format_timestamp(EventTime(batch[2]))

\* The scenario with the two events in different minutes, merged.
C27_Witness ==
  /\ pc = "merged"
  /\ PracticeThenMessage
  /\ db.exists
  /\ db.last_practice_timedate # db.last_message_timedate
  /\ db.lessons[1].message_count = IntV(1)

\* ----------------------------------------------------------------- C28
\* The iterations of the loop that wrote.
Writing == {g \in 1..Len(loaded.results) : ~loaded.results[g].raised}

\* Every stored record that no writing group's uniq_id selects is as it was
\* before the call, and a writing group's record is the only one more.
OnlySelectedWritten ==
  /\ \A i \in 1..Len(loaded.before) :
       (\A g \in Writing : loaded.results[g].uniq_id # loaded.before[i].uniq_id)
         => collection[i] = loaded.before[i]
  /\ \A i \in 1..Len(collection) :
       i > Len(loaded.before) =>
         \E g \in Writing : loaded.results[g].uniq_id = collection[i].uniq_id

\* No two groups of the batch write the same record.
GroupsWriteApart ==
  \A g, h \in Writing :
    g # h => loaded.results[g].uniq_id # loaded.results[h].uniq_id

RECURSIVE GroupsReversed(_)
\* The records with the groups in the opposite order, each group's records
\* in their own order.
GroupsReversed(groups) ==
  IF groups = <<>> THEN <<>>
  ELSE GroupsReversed(Tail(groups)) \o Head(groups).student_messages

\* Two collections hold the same records, in any order of insertion (the
\* clock readings apart).
SameStore(a, b) ==
  /\ Len(a) = Len(b)
  /\ \A i \in 1..Len(a) : \E j \in 1..Len(b) : SameStudents(<<a[i]>>, <<b[j]>>)
  /\ \A j \in 1..Len(b) : \E i \in 1..Len(a) : SameStudents(<<a[i]>>, <<b[j]>>)

\* The store after the call is the store the call leaves when it takes the
\* groups in the opposite order.
OrderOfGroupsIrrelevant ==
  loaded.fault = 0 =>
    SameStore(collection, load(loaded.before, GroupsReversed(Groups), 0, 1).collection)

\* C28: a group writes only the record its uniq_id selects and leaves the
\* others as they were, two groups of a batch never write the same record,
\* and the final store does not depend on the order of the groups.
C28_GroupsWriteApart ==
  pc = "loaded" =>
    /\ OnlySelectedWritten
    /\ GroupsWriteApart
    /\ OrderOfGroupsIrrelevant

\* ----------------------------------------------------------------- C29
\* The documents of a collection with the triple of the message.
WithTriple(coll, message_data) ==
  {i \in 1..Len(coll) :
     /\ coll[i].phone_number = message_data.phone_number
     /\ coll[i].timestamp = message_data.timestamp
     /\ coll[i].content = message_data.content}

\* C29: after the calls of save_message, in any interleaving, the
\* collection holds at most one document per (phone_number, timestamp,
\* content); a save of a triple that no document has yet (and that the
\* storage does not fail) returns success with action 'inserted'; a save of
\* a triple that a document has returns success with action 'skipped' and
\* leaves the collection as it was.
C29_OneDocumentPerTriple ==
  pc = "savers" =>
    /\ \A i, j \in 1..Len(messages) :
         (/\ messages[i].phone_number = messages[j].phone_number
          /\ messages[i].timestamp = messages[j].timestamp
          /\ messages[i].content = messages[j].content) => i = j
    /\ \A r \in Runners :
         (/\ savers[r].pc = "done"
          /\ MissingFields(savers[r].message_data) = {}
          /\ ~savers[r].storage_raises)
         => IF WithTriple(savers[r].before, savers[r].message_data) = {}
            THEN /\ savers[r].result = [success |-> TRUE, action |-> "inserted"]
                 /\ Len(savers[r].after) = Len(savers[r].before) + 1
            ELSE /\ savers[r].result = [success |-> TRUE, action |-> "skipped"]
                 /\ savers[r].after = savers[r].before

\* ----------------------------------------------------------------- C30
\* The number of results with the action.
WithAction(details, action) ==
  Cardinality({i \in 1..Len(details) : details[i].action = action})

\* The collection before iteration i of the batch, and after it.
DocsBefore(i) == IF i = 1 THEN savers[1].before ELSE savers[1].log[i - 1]
DocsAfter(i) == savers[1].log[i]

\* C30: save_messages_batch returns (it does not raise) with total the
\* number of input messages, inserted + skipped + errors = total, and in
\* details one result per input message in input order: the result at
\* position i is that of message i (an 'inserted' put message i in the
\* collection, any other left the collection alone); a message that lacks
\* phone_number, timestamp or content is an error and inserts nothing.
C30_BatchCountsPartition ==
  (pc = "saver" /\ savers[1].pc = "done") =>
    LET msgs == savers[1].batch
        results == savers[1].results
    IN  /\ results.total = Len(msgs)
        /\ results.inserted + results.skipped + results.errors = results.total
        /\ Len(results.details) = Len(msgs)
        /\ results.inserted = WithAction(results.details, "inserted")
        /\ results.skipped = WithAction(results.details, "skipped")
        /\ results.errors = WithAction(results.details, "error")
        /\ \A i \in 1..Len(msgs) :
             /\ results.details[i].action \in {"inserted", "skipped", "error"}
             /\ results.details[i].action = "inserted" =>
                  /\ MissingFields(msgs[i]) = {}
                  /\ DocsAfter(i) = Append(DocsBefore(i), MessageDoc(msgs[i]))
             /\ results.details[i].action # "inserted" =>
                  DocsAfter(i) = DocsBefore(i)
             /\ MissingFields(msgs[i]) # {} =>
                  /\ results.details[i] = [success |-> FALSE, action |-> "error"]
                  /\ DocsAfter(i) = DocsBefore(i)
        /\ Len(messages) = Len(savers[1].before) + results.inserted

\* A batch of a message without one of the keys and a message that is
\* inserted: one error, one inserted, one document more.
C30_Witness ==
  /\ pc = "saver"
  /\ savers[1].pc = "done"
  /\ Len(savers[1].batch) = 2
  /\ MissingFields(savers[1].batch[1]) # {}
  /\ savers[1].results.errors = 1
  /\ savers[1].results.inserted = 1
  /\ Len(messages) = Len(savers[1].before) + 1

\* ------------------------------------------------------------------ C34
\* Event i was accepted: its iteration changed the loop state and did not
\* raise.
AcceptedAt(i) == i \in Steps /\ After(i) # Before(i) /\ ~After(i).raised

\* The existing mark of the kind of an event.
ExistingMarkOfKind(kind) ==
  IF kind = "message" THEN ExistingLastMessage ELSE ExistingLastPractice

\* C34: within one call the events are handled in input order, and an
\* event is accepted only if its timestamp exceeds the existing mark of its
\* kind and the timestamp of every event of its kind accepted earlier in the
\* batch; an event that comes after an accepted event of its kind with the
\* same or a later timestamp is dropped (the loop state stays as it was).
C34_AcceptedIncreasing ==
  pc = "merged" =>
    /\ \A i \in 1..Len(batch) :
         AcceptedAt(i) =>
           /\ ExistingMarkOfKind(batch[i].message_type).k = "dt" =>
                EventTime(batch[i]) > ExistingMarkOfKind(batch[i].message_type).v
           /\ \A j \in 1..(i - 1) :
                (AcceptedAt(j) /\ batch[j].message_type = batch[i].message_type) =>
                  EventTime(batch[j]) < EventTime(batch[i])
    /\ \A i \in Steps :
         (\E j \in 1..(i - 1) :
            /\ AcceptedAt(j)
            /\ batch[j].message_type = batch[i].message_type
            /\ EventTime(batch[j]) >= EventTime(batch[i])) =>
           After(i) = Before(i)

\* A batch whose first event is accepted above the existing mark of its
\* kind and whose second event, of the same kind and earlier, is dropped.
C34_Witness ==
  /\ pc = "merged" /\ ~op.raised
  /\ Len(batch) = 2
  /\ batch[1].message_type = batch[2].message_type
  /\ ExistingMarkOfKind(batch[1].message_type).k = "dt"
  /\ AcceptedAt(1)
  /\ EventTime(batch[2]) < EventTime(batch[1])
  /\ EventTime(batch[2]) > ExistingMarkOfKind(batch[1].message_type).v
  /\ After(2) = Before(2)

\* ------------------------------------------------------------------ C35
\* The collection after the first k iterations of the latest call of load.
CollectionAfter(k) ==
  LoadGroups([collection |-> loaded.before, stats |-> ZeroStats,
              now |-> 1, results |-> <<>>],
             SubSeq(Groups, 1, k), loaded.fault).collection

\* No other group of the batch carries the identifier of group g.
AloneWithIdentifier(g) ==
  \A h \in 1..Len(loaded.results) :
    loaded.results[h].uniq_id = loaded.results[g].uniq_id => h = g

\* C35: when the processing of a student's group raises (an unparsable
\* event timestamp, a failing comparison, a storage error), the iteration
\* issues no write: the collection after it is the collection before it,
\* and the student's record is what it was before the batch, whatever the
\* events before the failing one had counted.
C35_AllOrNothing ==
  pc = "loaded" =>
    \A g \in 1..Len(loaded.results) :
      loaded.results[g].raised =>
        /\ CollectionAfter(g) = CollectionAfter(g - 1)
        /\ AloneWithIdentifier(g) =>
             find_one(collection, loaded.results[g].uniq_id) =
               find_one(loaded.before, loaded.results[g].uniq_id)

\* A group of a stored student whose first event was accepted and whose
\* second event made the merge raise.
C35_Witness ==
  /\ pc = "loaded"
  /\ \E g \in 1..Len(loaded.results) :
       LET r == loaded.results[g]
       IN  /\ r.raised
           /\ loaded.fault # g
           /\ Len(r.trace) = 3
           /\ r.trace[2] # r.trace[1]
           /\ ~r.trace[2].raised
           /\ r.trace[3].raised
           /\ find_one(loaded.before, r.uniq_id).exists
           /\ find_one(collection, r.uniq_id) = find_one(loaded.before, r.uniq_id)

\* ------------------------------------------------------------------ C36
\* A stored count as a number (a count that is not there counts as 0).
NumberOfCount(x) == IF x.k = "int" THEN x.v ELSE 0

\* How many events of the kind the latest merge accepted for the label.
AcceptedFor(kind, label) ==
  Cardinality({i \in 1..Len(batch) :
                 /\ AcceptedAt(i)
                 /\ batch[i].message_type = kind
                 /\ batch[i].lesson = label})

\* The stored list has a structurally valid entry of the label.
HasValidLesson(lessons, label) ==
  \E k \in 1..Len(lessons) :
    IsDict(lessons[k]) /\ HasLessonKey(lessons[k]) /\ lessons[k].lesson = label

LastOfEachLabel(lessons) ==
  SelectSeq([i \in 1..Len(lessons) |-> [at |-> i, entry |-> lessons[i]]],
            LAMBDA e : \A j \in (e.at + 1)..Len(lessons) :
                         lessons[j].lesson # e.entry.lesson)

\* The existing record with only the last entry of every label.
ExistingWithLastOnly ==
  [existing EXCEPT
     !.lessons = [i \in 1..Len(LastOfEachLabel(@)) |-> LastOfEachLabel(@)[i].entry]]

\* A label that the existing list holds more than once.
StoredTwice(label) ==
  \E i, j \in 1..Len(existing.lessons) :
    i # j /\ existing.lessons[i].lesson = label /\ existing.lessons[j].lesson = label

\* C37: the written lessons list holds no label twice, and a persisted list
\* with several entries of one label is merged as if only the last of them
\* in stored order were there: the data of the earlier ones is discarded.
C37_OneEntryPerLabel ==
  (pc = "merged" /\ ~op.raised) =>
    /\ \A i, j \in 1..Len(db.lessons) :
         db.lessons[i].lesson = db.lessons[j].lesson => i = j
    /\ SameRecord(db, update_one(ExistingWithLastOnly,
                                 process_student_messages(ExistingWithLastOnly, batch),
                                 1))

\* A merge into a record that holds a label twice with different counts,
\* which accepts a practice event for that label: the entry written has the
\* count of the last stored entry plus one.
C37_Witness ==
  /\ pc = "merged" /\ ~op.raised
  /\ \E i \in 1..Len(batch) :
       /\ AcceptedAt(i)
       /\ batch[i].message_type = "practice"
       /\ StoredTwice(batch[i].lesson)
       /\ AcceptedFor("practice", batch[i].lesson) = 1
       /\ \E j, k \in 1..Len(existing.lessons) :
            /\ j < k
            /\ existing.lessons[j].lesson = batch[i].lesson
            /\ existing.lessons[k].lesson = batch[i].lesson
            /\ existing.lessons[j].practice_count # existing.lessons[k].practice_count
            /\ LessonOf(db.lessons, batch[i].lesson).practice_count =
                 IntV(existing.lessons[k].practice_count.v + 1)

\* ------------------------------------------------------------------ C38
\* C38: a merge leaves the truth value of the paid flag of every lesson it
\* found as stored (written as a boolean; no flag reads as false), whether
\* or not it accepted events for the lesson, and every lesson it created
\* has paid = false.
C38_PaidKept ==
  (pc = "merged" /\ ~op.raised) =>
    /\ \A j \in 1..Len(existing.lessons) :
         LET old == existing.lessons[j]
         IN  (IsDict(old) /\ HasLessonKey(old)) =>
               /\ HasLesson(db.lessons, old.lesson)
               /\ LessonOf(db.lessons, old.lesson).paid = BoolV(Truthy(old.paid))
    /\ \A j \in 1..Len(db.lessons) :
         ~HasValidLesson(existing.lessons, db.lessons[j].lesson) =>
           db.lessons[j].paid = BoolV(FALSE)

\* A merge that accepts a practice event for a lesson stored with a paid
\* flag that is true but not a boolean, and creates another lesson.
C38_Witness ==
  /\ pc = "merged" /\ ~op.raised
  /\ \E i \in 1..Len(batch) :
       /\ AcceptedAt(i)
       /\ batch[i].message_type = "practice"
       /\ HasValidLesson(existing.lessons, batch[i].lesson)
       /\ \E j \in 1..Len(existing.lessons) :
            /\ IsDict(existing.lessons[j]) /\ HasLessonKey(existing.lessons[j])
            /\ existing.lessons[j].lesson = batch[i].lesson
            /\ existing.lessons[j].paid = IntV(1)
       /\ LessonOf(db.lessons, batch[i].lesson).paid = BoolV(TRUE)
  /\ \E j \in 1..Len(db.lessons) :
       /\ ~HasValidLesson(existing.lessons, db.lessons[j].lesson)
       /\ db.lessons[j].paid = BoolV(FALSE)

\* ------------------------------------------------------------------ C39
\* The phone numbers of the batch: one group each.
DistinctGroups == {records[i].phone_number : i \in 1..Len(records)}

\* The groups that were written and found no record when they were read.
FoundNoRecord ==
  {g \in 1..Len(loaded.results) :
     /\ ~loaded.results[g].raised
     /\ ~find_one(CollectionAfter(g - 1), loaded.results[g].uniq_id).exists}

\* C39: the statistics load returns count every group once:
\* students_processed + errors is the number of distinct groups of the
\* batch, new_students + updated_students is students_processed, the new
\* students are the groups that found no record when they were read, and
\* an empty input gives all-zero statistics with no iteration run and the
\* storage as it was.
C39_StatsAccount ==
  pc = "loaded" =>
    /\ loaded.stats.students_processed + loaded.stats.errors =
         Cardinality(DistinctGroups)
    /\ Len(loaded.results) = Cardinality(DistinctGroups)
    /\ loaded.stats.new_students + loaded.stats.updated_students =
         loaded.stats.students_processed
    /\ loaded.stats.new_students = Cardinality(FoundNoRecord)
    /\ loaded.stats.errors =
         Cardinality({g \in 1..Len(loaded.results) : loaded.results[g].raised})
    /\ records = <<>> =>
         /\ loaded.stats = ZeroStats
         /\ loaded.results = <<>>
         /\ collection = loaded.before

\* A call with two groups on a collection that holds a record: one group
\* raises and the other is written as a new student.
C39_Witness ==
  /\ pc = "loaded"
  /\ loaded.before # <<>>
  /\ Cardinality(DistinctGroups) = 2
  /\ loaded.stats.errors = 1
  /\ loaded.stats.new_students = 1
  /\ loaded.stats.updated_students = 0
  /\ loaded.stats.students_processed = 1

\* ------------------------------------------------------------------ C31
\* Entry new is entry old with the two keys added where they were missing
\* and everything else as it was.
MigratedFrom(old, new) ==
  IF ~IsDict(old) THEN new = old
  ELSE /\ IsDict(new)
       /\ [new EXCEPT !.paid = old.paid, !.message_count = old.message_count] = old
       /\ new.paid = IF old.paid.k = "absent" THEN BoolV(FALSE) ELSE old.paid
       /\ new.message_count =
            IF old.message_count.k = "absent" THEN IntV(0) ELSE old.message_count

\* Document new is document old with its lessons migrated in place and in
\* order and updated_at set, or it is old untouched.
DocMigratedFrom(old, new) ==
  \/ new = old
  \/ /\ new.uniq_id = old.uniq_id
     /\ new.phone_number = old.phone_number
     /\ new.name = old.name
     /\ [new.doc EXCEPT !.lessons = old.doc.lessons,
                        !.updated_at = old.doc.updated_at] = old.doc
     /\ Len(new.doc.lessons) = Len(old.doc.lessons)
     /\ \A j \in 1..Len(old.doc.lessons) :
          MigratedFrom(old.doc.lessons[j], new.doc.lessons[j])

PracticeTexts(phone) ==
  {messages[i].timestamp :
     i \in {j \in 1..Len(messages) :
              /\ messages[j].phone_number = phone
              /\ messages[j].message_category = "practice"}}

\* C32: get_latest_practice_dates_from_mongo returns, for every phone
\* number that has practice messages, the chronologically latest practice
\* timestamp among that phone's stored practice messages.
C32_LatestPracticeReturned ==
  sheets.call = "latest" =>
    \A phone \in SheetPhones :
      PracticeTexts(phone) # {} =>
        /\ phone \in DOMAIN sheets.phone_to_date
        /\ \A t \in PracticeTexts(phone) :
             ~DateLess(sheets.phone_to_date[phone], DateOf(t))

\* ------------------------------------------------------------------ C33
\* The datetimes of the practice records of a phone number that parse.
PracticeDates(recs, phone) ==
  {sheet_parse_timestamp(recs[i].current_timestamp).dt :
     i \in {j \in 1..Len(recs) :
              /\ recs[j].message_type = "practice"
              /\ recs[j].phone_number = phone
              /\ sheet_parse_timestamp(recs[j].current_timestamp).ok}}

\* The selection as phone number and timestamp, without the order of the
\* dict and without the record kept.
SelectedDates(student_practices) ==
  {[phone_number |-> student_practices[i].phone_number,
    timestamp |-> student_practices[i].timestamp] : i \in 1..Len(student_practices)}

\* The call got as far as the selection.
Selected ==
  /\ sheets.call = "update"
  /\ records # <<>>
  /\ sheets.outcome # "no_client"

\* C33: the timestamp selected for a phone number is the greatest parsed
\* timestamp of that phone's practice records of the batch, and a phone
\* number without such a record is not selected; the selection is the same
\* for every order of the records, and the same without the message
\* records and the records whose timestamp does not parse; when the
\* batch_update call fails, students_updated is 0 and errors is the number
\* of queued cell updates.
C33_LatestPracticeSelected ==
  Selected =>
    /\ \A phone \in SheetPhones :
         IF PracticeDates(records, phone) = {}
         THEN ~PracticeHas(sheets.student_practices, phone)
         ELSE /\ PracticeHas(sheets.student_practices, phone)
              /\ LET chosen == sheets.student_practices[
                                 PracticeIndex(sheets.student_practices, phone)].timestamp
                 IN  /\ chosen \in PracticeDates(records, phone)
                     /\ \A d \in PracticeDates(records, phone) : ~DateLess(chosen, d)
    /\ \A other \in Reorderings(records) :
         SelectedDates(SelectPractices(<<>>, other)) =
           SelectedDates(sheets.student_practices)
    /\ SelectedDates(SelectPractices(<<>>,
         SelectSeq(records,
                   LAMBDA r : /\ r.message_type = "practice"
                              /\ sheet_parse_timestamp(r.current_timestamp).ok))) =
         SelectedDates(sheets.student_practices)
    /\ (sheets.outcome = "update_fails" /\ sheets.updates # <<>>) =>
         /\ sheets.stats.students_updated = 0
         /\ sheets.stats.errors = Len(sheets.updates)
         /\ sheets.written = <<>>

\* A batch with a later practice record of a phone number before an
\* earlier one, whose cell update is queued and whose batch_update fails.
C33_Witness ==
  /\ Selected
  /\ sheets.outcome = "update_fails"
  /\ Len(records) = 2
  /\ records[1].phone_number = records[2].phone_number
  /\ records[1].message_type = "practice"
  /\ records[2].message_type = "practice"
  /\ sheet_parse_timestamp(records[1].current_timestamp).ok
  /\ sheet_parse_timestamp(records[2].current_timestamp).ok
  /\ DateLess(sheet_parse_timestamp(records[2].current_timestamp).dt,
              sheet_parse_timestamp(records[1].current_timestamp).dt)
  /\ Len(sheets.updates) = 1
  /\ sheets.stats.errors = 1
  /\ sheets.stats.students_updated = 0

\* ------------------------------------------------------------------ C40
\* The connection is established: a client and the three handles.
Established ==
  conn.client /\ conn.students_db /\ conn.sales_db /\ conn.logger_db

\* C40: over any sequence of constructor, get_*_database(), close() and
\* test_connection() calls there is at most one instance; _connect is
\* invoked only by a constructor call that finds the client None or a
\* get_*_database() call that finds its handle None; the first constructor
\* or get_*_database() call after close() invokes _connect and, unless
\* _connect raises, leaves the connection established; after close() the
\* client and the handles are None; and test_connection() without a client
\* returns False and does not raise.
C40_SingletonLazyReconnect ==
  /\ conn.instances <= 1
  /\ conn.held => conn.instances = 1
  /\ conn.last.connected =>
       \/ conn.last.call = "construct" /\ ~conn.last.client_before
       \/ conn.last.call = "get_database" /\ ~conn.last.handle_before
  /\ (conn.last.call \in {"construct", "get_database"} /\ conn.last.closed_before) =>
       /\ conn.last.connected
       /\ ~conn.last.raised => (Established /\ conn.last.returned)
  /\ conn.last.call = "close" =>
       ~conn.client /\ ~conn.students_db /\ ~conn.sales_db /\ ~conn.logger_db
  /\ (conn.last.call = "test_connection" /\ ~conn.last.client_before) =>
       ~conn.last.returned /\ ~conn.last.raised

\* A get_*_database() call right after close() of an established
\* connection, which connects again and returns the handle.
C40_Witness ==
  /\ conn.last.call = "get_database"
  /\ conn.last.closed_before
  /\ ~conn.last.client_before
  /\ conn.last.connected
  /\ conn.last.returned
  /\ Established
  /\ conn.instances = 1
  /\ conn.calls >= 3

====
